---- MODULE Spec2Model ----
(***************************************************************************)
(* A model of build/android/pylib/device/device_utils.py (DeviceUtils):    *)
(* the session cache (GetProp, SetProp, NeedsSU, EnableRoot, Reboot,       *)
(* GetExternalStoragePath), RunShellCommand's output contract, KillAll,    *)
(* ReadFile / WriteFile and the changed-file diff with PushChangedFiles.   *)
(*                                                                         *)
(* Each group of operations is a specification of its own over the shared   *)
(* variables; the variables a specification does not use keep their        *)
(* initial value.                                                          *)
(***************************************************************************)
EXTENDS Integers, Sequences, FiniteSets, TLC

VARIABLES
  cache,      \* DeviceUtils._cache: cache key -> cached value
  devProps,   \* the device: property name -> current value (a string)
  devSu,      \* the device: TRUE iff the probe 'su -c ls /root && ! ls /root' exits 0
  devExt,     \* the device: the value of $EXTERNAL_STORAGE (a string)
  stale,      \* ghost: cache keys filled before the last issued reboot command
  retd,       \* ghost: properties GetProp(cache=True) returned a value for since the last SetProp on them / Reboot
  procs,      \* the device: the process table, pid -> process name
  dying,      \* the device: the pids that received a signal and have not exited yet
  kpc,        \* where a KillAll call stands: "idle", or "waiting" in its blocking loop
  devFile,    \* the device: the content of the file ReadFile / WriteFile work on, or NoFile
  hostFs,     \* the host: file path -> content hash, or None
  devFs,      \* the device: [dirs: the directories that exist, files: file path -> hash or None]
  host_device_tuples,  \* the list of (host_path, device_path) the caller pushes
  commandsInstalled,  \* DeviceUtils._commands_installed: None, TRUE or FALSE
  sessions,   \* the sessions a parallelizer runs side by side: id -> session and device
  lastOp      \* the last operation called, its arguments and its outcome

vars == <<cache, devProps, devSu, devExt, stale, retd, procs, dying, kpc, devFile,
          hostFs, devFs, host_device_tuples, commandsInstalled, sessions, lastOp>>

cacheVars == <<cache, devProps, devSu, devExt, stale, retd>>

killVars == <<procs, dying, kpc>>

pushVars == <<hostFs, devFs, host_device_tuples, commandsInstalled>>

notCacheVars == <<killVars, devFile, pushVars>>

(***************************************************************************)
(* Strings.  A string is a sequence of chunks; a chunk [t, n] is a piece   *)
(* of text t of n characters holding no line terminator, or one of the     *)
(* one-character terminators "\n" and "\r".                                *)
(***************************************************************************)
LF == [t |-> "\n", n |-> 1]

CR == [t |-> "\r", n |-> 1]

Text(t, n) == <<[t |-> t, n |-> n]>>

EmptyStr == <<>>

RECURSIVE StrLen(_)
StrLen(s) == IF s = <<>> THEN 0 ELSE Head(s).n + StrLen(Tail(s))

\* str.splitlines(): lines end at "\n", "\r" or "\r\n"; no empty last line.
RECURSIVE SplitFrom(_, _, _, _)
SplitFrom(s, i, cur, acc) ==
  IF i > Len(s) THEN (IF cur # <<>> THEN Append(acc, cur) ELSE acc)
  ELSE IF s[i] = LF THEN SplitFrom(s, i + 1, <<>>, Append(acc, cur))
  ELSE IF s[i] = CR THEN
    (IF i + 1 <= Len(s) /\ s[i + 1] = LF
       THEN SplitFrom(s, i + 2, <<>>, Append(acc, cur))
       ELSE SplitFrom(s, i + 1, <<>>, Append(acc, cur)))
  ELSE SplitFrom(s, i + 1, Append(cur, s[i]), acc)

splitlines(s) == SplitFrom(s, 1, <<>>, <<>>)

\* _JoinLines(lines): every line, the last one too, followed by "\n".
RECURSIVE JoinLinesNoLastTerminator(_)
JoinLinesNoLastTerminator(lines) ==
  IF lines = <<>> THEN <<>>
  ELSE IF Len(lines) = 1 THEN Head(lines)
  ELSE Head(lines) \o <<LF>> \o JoinLinesNoLastTerminator(Tail(lines))

RECURSIVE JoinLines(_)
JoinLines(lines) ==
  IF lines = <<>> THEN <<>>
  ELSE Head(lines) \o <<LF>> \o JoinLines(Tail(lines))

(***************************************************************************)
(* adb.Shell and RunShellCommand's handling of its result.                 *)
(* A shell result is [exc, output]: exc = "none" (exit 0), or the error    *)
(* adb.Shell raises; AdbCommandFailedError carries the partial output.     *)
(***************************************************************************)
ShellOk(out) == [exc |-> "none", output |-> out]

ShellRaise(e, out) == [exc |-> e, output |-> out]

\* do_run: a nonzero exit is re-raised when check_return, else its output is the result.
do_runAlwaysRaises(sh, check_return) == sh

do_run(sh, check_return) ==
  IF sh.exc = "AdbCommandFailedError" /\ ~check_return
    THEN ShellOk(sh.output)
    ELSE sh

\* The single_line contract: no line -> '', one line -> the line, more -> CommandFailedError.
SingleLineFirstOfMany(lines) ==
  IF lines = <<>> THEN [exc |-> "none", val |-> EmptyStr]
  ELSE [exc |-> "none", val |-> lines[1]]

SingleLine(lines) ==
  IF lines = <<>> THEN [exc |-> "none", val |-> EmptyStr]
  ELSE IF Len(lines) = 1 THEN [exc |-> "none", val |-> lines[1]]
  ELSE [exc |-> "CommandFailedError", val |-> lines]

\* RunShellCommand from the result of the device call on: [exc, val].
RunShellCommand(sh, check_return, single_line) ==
  LET r == do_run(sh, check_return) IN
  IF r.exc # "none" THEN [exc |-> r.exc, val |-> r.output]
  ELSE LET output == splitlines(r.output) IN
       IF single_line THEN SingleLine(output)
       ELSE [exc |-> "none", val |-> output]

(***************************************************************************)
(* The session cache.  Keys are strings in the code: '_prop:' + name for a *)
(* property, and the bare names 'needs_su' and 'external_storage'.  A key  *)
(* is modelled as the tuple of its prefix and its name, so '_prop:x' and   *)
(* 'x' are different keys, as they are different strings.                  *)
(***************************************************************************)
PropKey(name) == <<"_prop:", name>>

PlainKey(name) == <<name>>

NeedsSuKey == PlainKey("needs_su")

ExtKey == PlainKey("external_storage")

EmptyCache == [k \in {} |-> TRUE]

Put(c, k, v) == [x \in DOMAIN c \cup {k} |-> IF x = k THEN v ELSE c[x]]

Drop(c, k) == [x \in DOMAIN c \ {k} |-> c[x]]

\* The properties GetProp and SetProp are called with, and the values a device gives them.
PropNames == {"ro.build.type", "sys.boot_completed"}

SdkProp == "ro.build.version.sdk"

UserBuild == Text("user", 4)

BootDone == Text("1", 1)

\* The values the device can hold for a property.
PropValues(name) ==
  IF name = "ro.build.type" THEN {UserBuild, Text("userdebug", 9)}
  ELSE {Text("0", 1), BootDone}

DevPropStates ==
  {p \in [PropNames -> UNION {PropValues(n) : n \in PropNames}] :
     \A n \in PropNames : p[n] \in PropValues(n)}

SdkValue == Text("19", 2)

ExtValues == {EmptyStr, Text("/sdcard", 7)}

\* What a remote call can end with besides the device's answer.
Faults == {"none", "CommandTimeoutError"}

NoOp == [op |-> "Init", name |-> "", flag |-> FALSE, exc |-> "none", q |-> FALSE,
         val |-> EmptyStr]

Op(op, name, flag, exc, q, val) ==
  [op |-> op, name |-> name, flag |-> flag, exc |-> exc, q |-> q, val |-> val]

\* The device's answer to a command that prints one value.
ShellPrint(value, fault) ==
  IF fault = "none" THEN ShellOk(value \o <<LF>>) ELSE ShellRaise(fault, EmptyStr)

\* The result of a call served without any remote command.
Served(c, v) == [cache |-> c, exc |-> "none", val |-> v, q |-> FALSE]

(***************************************************************************)
(* GetProp(property_name, cache): [cache, exc, val, q], q = a shell query  *)
(* was issued.                                                             *)
(***************************************************************************)
GetPropAlwaysQueries(c, props, name, useCache, fault) ==
  LET r == RunShellCommand(ShellPrint(props[name], fault), TRUE, TRUE) IN
  IF r.exc # "none"
    THEN [cache |-> c, exc |-> r.exc, val |-> r.val, q |-> TRUE]
    ELSE [cache |-> IF useCache \/ PropKey(name) \in DOMAIN c
                      THEN Put(c, PropKey(name), r.val) ELSE c,
          exc |-> "none", val |-> r.val, q |-> TRUE]

GetPropAlwaysStores(c, props, name, useCache, fault) ==
  LET cache_key == PropKey(name) IN
  IF useCache /\ cache_key \in DOMAIN c
    THEN Served(c, c[cache_key])
    ELSE LET r == RunShellCommand(ShellPrint(props[name], fault), TRUE, TRUE) IN
         IF r.exc # "none"
           THEN [cache |-> c, exc |-> r.exc, val |-> r.val, q |-> TRUE]
           ELSE [cache |-> Put(c, cache_key, r.val), exc |-> "none", val |-> r.val,
                 q |-> TRUE]

GetPropImpl(c, props, name, useCache, fault) ==
  LET cache_key == PropKey(name) IN
  IF useCache /\ cache_key \in DOMAIN c
    THEN Served(c, c[cache_key])
    ELSE LET r == RunShellCommand(ShellPrint(props[name], fault), TRUE, TRUE) IN
         IF r.exc # "none"
           THEN [cache |-> c, exc |-> r.exc, val |-> r.val, q |-> TRUE]
           ELSE [cache |-> IF useCache \/ cache_key \in DOMAIN c
                             THEN Put(c, cache_key, r.val) ELSE c,
                 exc |-> "none", val |-> r.val, q |-> TRUE]

\* ghost: the keys left from before the reboot once call r has run
StaleAfter(st, key, r) == IF r.q /\ r.exc = "none" THEN st \ {key} ELSE st

\* ghost: the properties a GetProp(cache=True) has returned a value for, after call r
RetdAfter(rt, name, r) == IF r.exc = "none" /\ name \in PropNames THEN rt \cup {name} ELSE rt

GetProp ==
  \E name \in PropNames, useCache \in BOOLEAN, fault \in Faults :
    LET r == GetPropImpl(cache, devProps, name, useCache, fault) IN
      /\ cache' = r.cache
      /\ lastOp' = Op("GetProp", name, useCache, r.exc, r.q, r.val)
      /\ stale' = StaleAfter(stale, PropKey(name), r)
      /\ retd' = IF useCache THEN RetdAfter(retd, name, r) ELSE retd
      /\ UNCHANGED <<sessions, devProps, devSu, devExt, notCacheVars>>

(***************************************************************************)
(* SetProp(property_name, value, check)                                    *)
(***************************************************************************)
\* The entry SetProp deletes after the setprop command: the one keyed property_name.
SetPropPurge(c, name) == Drop(c, PlainKey(name))

\* The ways a SetProp call can go: the setprop command fails; or it runs and the
\* device takes the value or ignores it (it always ignores a set of the read-only
\* ro.build.type), and the re-read of check=True answers or fails.
SetPropOutcomes ==
  {[fault |-> "CommandTimeoutError", took |-> FALSE, fault2 |-> "none"]}
    \cup [fault : {"none"}, took : BOOLEAN, fault2 : Faults]

\* The re-read of check=True: self.GetProp(property_name), cache left at its default.
SetPropRereadCached(c, props, name, fault) == GetPropImpl(c, props, name, TRUE, fault)

SetPropReread(c, props, name, fault) == GetPropImpl(c, props, name, FALSE, fault)

\* lastOp.q: the re-read was issued; lastOp.written: the value of the call;
\* lastOp.read: what the re-read returned ('' when there was none).
SetProp ==
  \E name \in PropNames, check \in BOOLEAN, o \in SetPropOutcomes :
   \E value \in PropValues(name) :
    LET set == RunShellCommand(ShellPrint(EmptyStr, o.fault), TRUE, FALSE)
        props2 == IF o.took THEN [devProps EXCEPT ![name] = value] ELSE devProps
        c1 == SetPropPurge(cache, name)
        r == SetPropReread(c1, props2, name, o.fault2)
        done(exc, q, read) ==
          [op |-> "SetProp", name |-> name, flag |-> check, exc |-> exc, q |-> q,
           val |-> EmptyStr, written |-> value, read |-> read]
    IN
      /\ check \/ o.fault2 = "none"
      /\ o.took => name # "ro.build.type"
      /\ devProps' = props2
      /\ retd' = retd \ {name}
      /\ IF set.exc # "none"
           THEN /\ cache' = cache
                /\ stale' = stale
                /\ lastOp' = done(set.exc, FALSE, EmptyStr)
           ELSE IF ~check
             THEN /\ cache' = c1
                  /\ stale' = stale
                  /\ lastOp' = done("none", FALSE, EmptyStr)
             ELSE /\ cache' = r.cache
                  /\ stale' = StaleAfter(stale, PropKey(name), r)
                  /\ lastOp' = done(IF r.exc # "none" THEN r.exc
                                     ELSE IF value # r.val THEN "CommandFailedError"
                                     ELSE "none",
                                     r.q, IF r.exc = "none" THEN r.val ELSE EmptyStr)
      /\ UNCHANGED <<sessions, devSu, devExt, notCacheVars>>

(***************************************************************************)
(* NeedsSU()                                                               *)
(***************************************************************************)
\* The probe 'su -c ls /root && ! ls /root', run with check_return=True.
SuProbe(su, fault) ==
  IF fault # "none" THEN ShellRaise(fault, EmptyStr)
  ELSE IF su THEN ShellOk(EmptyStr)
  ELSE ShellRaise("AdbCommandFailedError", EmptyStr)

NeedsSUAlwaysProbes(c, su, fault) ==
  LET r == RunShellCommand(SuProbe(su, fault), TRUE, FALSE) IN
  IF r.exc = "none"
    THEN [cache |-> Put(c, NeedsSuKey, TRUE), exc |-> "none", val |-> TRUE, q |-> TRUE]
  ELSE IF r.exc = "AdbCommandFailedError"
    THEN [cache |-> Put(c, NeedsSuKey, FALSE), exc |-> "none", val |-> FALSE, q |-> TRUE]
  ELSE [cache |-> c, exc |-> r.exc, val |-> FALSE, q |-> TRUE]

\* 'except Exception:' in place of 'except device_errors.AdbCommandFailedError:'
NeedsSUFalseOnAnyError(c, su, fault) ==
  IF NeedsSuKey \in DOMAIN c
    THEN Served(c, c[NeedsSuKey])
    ELSE LET r == RunShellCommand(SuProbe(su, fault), TRUE, FALSE) IN
         [cache |-> Put(c, NeedsSuKey, r.exc = "none"), exc |-> "none",
          val |-> r.exc = "none", q |-> TRUE]

NeedsSUImpl(c, su, fault) ==
  IF NeedsSuKey \in DOMAIN c
    THEN Served(c, c[NeedsSuKey])
    ELSE LET r == RunShellCommand(SuProbe(su, fault), TRUE, FALSE) IN
         IF r.exc = "none"
           THEN [cache |-> Put(c, NeedsSuKey, TRUE), exc |-> "none",
                 val |-> TRUE, q |-> TRUE]
         ELSE IF r.exc = "AdbCommandFailedError"
           THEN [cache |-> Put(c, NeedsSuKey, FALSE), exc |-> "none",
                 val |-> FALSE, q |-> TRUE]
         ELSE [cache |-> c, exc |-> r.exc, val |-> FALSE, q |-> TRUE]

\* lastOp.flag: ghost, the operation before this one was a NeedsSU that returned.
NeedsSU ==
  \E fault \in Faults :
    LET r == NeedsSUImpl(cache, devSu, fault) IN
      /\ cache' = r.cache
      /\ stale' = StaleAfter(stale, NeedsSuKey, r)
      /\ lastOp' = Op("NeedsSU", "", lastOp.op = "NeedsSU" /\ lastOp.exc = "none",
                      r.exc, r.q, r.val)
      /\ UNCHANGED <<sessions, devProps, devSu, devExt, retd, notCacheVars>>

(***************************************************************************)
(* GetExternalStoragePath()                                                *)
(***************************************************************************)
GetExternalStoragePathImpl(c, ext, fault) ==
  IF ExtKey \in DOMAIN c
    THEN Served(c, c[ExtKey])
    ELSE LET r == RunShellCommand(ShellPrint(ext, fault), TRUE, TRUE) IN
         IF r.exc # "none" THEN [cache |-> c, exc |-> r.exc, val |-> r.val, q |-> TRUE]
         ELSE IF r.val = EmptyStr
           THEN [cache |-> c, exc |-> "CommandFailedError", val |-> r.val, q |-> TRUE]
         ELSE [cache |-> Put(c, ExtKey, r.val), exc |-> "none", val |-> r.val, q |-> TRUE]

GetExternalStoragePath ==
  \E fault \in Faults :
    LET r == GetExternalStoragePathImpl(cache, devExt, fault) IN
      /\ cache' = r.cache
      /\ stale' = StaleAfter(stale, ExtKey, r)
      /\ lastOp' = Op("GetExternalStoragePath", "", FALSE, r.exc, r.q, r.val)
      /\ UNCHANGED <<sessions, devProps, devSu, devExt, retd, notCacheVars>>

(***************************************************************************)
(* EnableRoot()                                                            *)
(***************************************************************************)
EnableRootPurgeAll(c) == EmptyCache

\* if 'needs_su' in self._cache: del self._cache['needs_su']
EnableRootPurge(c) == Drop(c, NeedsSuKey)

\* IsUserBuild: self.build_type == 'user', b what the cached read of ro.build.type gave.
IsUserBuildNever(b) == FALSE

IsUserBuild(b) == b.exc = "none" /\ b.val = UserBuild

\* lastOp.q: adb.Root() was called; lastOp.flag: ghost, needs_su was cached when the
\* call was made.
EnableRoot ==
  \E fault \in Faults, rootFault \in Faults :
    LET b == GetPropImpl(cache, devProps, "ro.build.type", TRUE, fault)
        user == IsUserBuild(b)
        had == NeedsSuKey \in DOMAIN cache
    IN
      /\ (b.exc # "none" \/ user) => rootFault = "none"
      /\ stale' = StaleAfter(stale, PropKey("ro.build.type"), b)
      /\ retd' = RetdAfter(retd, "ro.build.type", b)
      /\ IF b.exc # "none"
           THEN /\ cache' = b.cache
                /\ devSu' = devSu
                /\ lastOp' = Op("EnableRoot", "", had, b.exc, FALSE, EmptyStr)
           ELSE IF user
             THEN /\ cache' = b.cache
                  /\ devSu' = devSu
                  /\ lastOp' = Op("EnableRoot", "", had, "CommandFailedError", FALSE,
                                  EmptyStr)
             ELSE /\ cache' = EnableRootPurge(b.cache)
                  \* adb.Root(), adb.WaitForDevice(): adbd as root needs no su
                  /\ devSu' = IF rootFault = "none" THEN FALSE ELSE devSu
                  /\ lastOp' = Op("EnableRoot", "", had, rootFault, TRUE, EmptyStr)
      /\ UNCHANGED <<sessions, devProps, devExt, notCacheVars>>

(***************************************************************************)
(* Reboot(block, wifi) with WaitUntilFullyBooted(wifi)                     *)
(***************************************************************************)
RebootKeepsFacts(c) == [k \in {x \in DOMAIN c : Len(x) = 1} |-> c[k]]

\* self._cache = {}
RebootPurge(c) == EmptyCache

\* The waits of Reboot and WaitUntilFullyBooted, in the order they run.
StOffline == 0
StWaitForDevice == 1
StSdCard == 2
StPm == 3
StBoot == 4
StWifi == 5
StDone == 6

\* WaitUntilFullyBooted stopping (a timeout) in wait stopAt, or not at all (StDone);
\* got: the getter of that wait had fetched its fact before the wait ran out.
\* [cache, stale, exc, sdk, booted]
WaitUntilFullyBootedImpl(c, st, props, ext, stopAt, got) ==
  LET idle == Served(c, EmptyStr)
      sd == IF stopAt > StSdCard \/ (stopAt = StSdCard /\ got)
              THEN GetExternalStoragePathImpl(c, ext, "none") ELSE idle
      st2 == StaleAfter(st, ExtKey, sd)
      pm == IF sd.exc = "none" /\ (stopAt > StPm \/ (stopAt = StPm /\ got))
              THEN GetPropImpl(sd.cache, props, SdkProp, TRUE, "none")
              ELSE Served(sd.cache, EmptyStr)
      st3 == StaleAfter(st2, PropKey(SdkProp), pm)
      bc == IF sd.exc = "none" /\ (stopAt > StBoot \/ (stopAt = StBoot /\ got))
              THEN GetPropImpl(pm.cache, props, "sys.boot_completed", FALSE, "none")
              ELSE Served(pm.cache, EmptyStr)
      st4 == StaleAfter(st3, PropKey("sys.boot_completed"), bc)
  IN [cache |-> bc.cache, stale |-> st4,
      exc |-> IF sd.exc # "none" THEN sd.exc
              ELSE IF stopAt = StDone THEN "none"
              ELSE "CommandTimeoutError",
      booted |-> bc.q /\ bc.val = BootDone]

\* The ways a Reboot call can go once adb.Reboot() has returned.
RebootOutcomes ==
  {o \in [block : BOOLEAN, stopAt : StOffline..StDone, got : BOOLEAN] :
     /\ o.got => o.stopAt \in {StSdCard, StPm, StBoot}
     /\ ~o.block => o.stopAt \in {StOffline, StDone}}

\* adb.Reboot() raises: nothing else runs.
RebootNotIssued ==
  /\ lastOp' = Op("Reboot", "", ExtKey \in DOMAIN cache, "CommandTimeoutError", FALSE, EmptyStr)
  /\ UNCHANGED <<sessions, cacheVars, notCacheVars>>

\* lastOp.q: adb.Reboot() returned; lastOp.flag: ghost, external_storage was cached
\* when the call was made.
RebootIssued ==
  \E o \in RebootOutcomes, boot \in PropValues("sys.boot_completed"), su \in BOOLEAN :
    LET c0 == RebootPurge(cache)
        props == [devProps EXCEPT !["sys.boot_completed"] = boot]
        w == IF o.block /\ o.stopAt > StOffline
               THEN WaitUntilFullyBootedImpl(c0, DOMAIN c0, props, devExt, o.stopAt, o.got)
               ELSE [cache |-> c0, stale |-> DOMAIN c0,
                     exc |-> IF o.stopAt = StOffline THEN "CommandTimeoutError" ELSE "none",
                     booted |-> FALSE]
    IN
      \* the boot wait gets past sys.boot_completed only when it reads '1'
      /\ (o.block /\ o.stopAt > StBoot) => (w.exc # "none" \/ w.booted)
      /\ devProps' = props
      /\ devSu' = su
      /\ devExt' = devExt
      /\ retd' = {}
      /\ cache' = w.cache
      /\ stale' = w.stale
      /\ lastOp' = Op("Reboot", "", ExtKey \in DOMAIN cache, w.exc, TRUE, EmptyStr)
      /\ UNCHANGED <<sessions, notCacheVars>>

Reboot == RebootNotIssued \/ RebootIssued

(***************************************************************************)
(* The values of the variables a specification does not use.               *)
(***************************************************************************)
None == "None"

NoFile == [exists |-> FALSE, content |-> EmptyStr]

File(content) == [exists |-> TRUE, content |-> content]

NoProcs == [p \in {} |-> <<>>]

\* No parallelizer: the one session of the other variables.
NoSessions == [s \in {} |-> None]

CacheUnused ==
  /\ devProps = [n \in PropNames \cup {SdkProp} |->
                   IF n = SdkProp THEN SdkValue
                   ELSE IF n = "ro.build.type" THEN UserBuild ELSE BootDone]
  /\ devExt = Text("/sdcard", 7)
  /\ stale = {}
  /\ retd = {}

KillUnused == procs = NoProcs /\ dying = {} /\ kpc = "idle"

FileUnused == devFile = NoFile

PushUnused ==
  /\ hostFs = [f \in {} |-> None]
  /\ devFs = [dirs |-> {}, files |-> [f \in {} |-> None]]
  /\ host_device_tuples = <<>>
  /\ commandsInstalled = None

(***************************************************************************)
(* The session-cache specification.                                        *)
(***************************************************************************)
InitCache ==
  /\ sessions = NoSessions
  /\ KillUnused /\ FileUnused /\ PushUnused
  /\ cache = EmptyCache
  /\ devProps \in {[n \in PropNames \cup {SdkProp} |-> IF n = SdkProp THEN SdkValue ELSE p[n]] :
                     p \in DevPropStates}
  /\ devSu \in BOOLEAN
  /\ devExt \in ExtValues
  /\ stale = {}
  /\ retd = {}
  /\ lastOp = NoOp

NextCache ==
  \/ GetProp
  \/ SetProp
  \/ NeedsSU
  \/ GetExternalStoragePath
  \/ EnableRoot
  \/ Reboot

SpecCache == InitCache /\ [][NextCache]_vars

(***************************************************************************)
(* Claims about the session cache, checked under SpecCache.                *)
(***************************************************************************)

\* C4: after SetProp(name, value, check) has returned, the cache holds no entry for
\* the property name, so the next cached GetProp has to query the device.
C4_SetPropInvalidates ==
  (lastOp.op = "SetProp" /\ lastOp.exc = "none") => PropKey(lastOp.name) \notin DOMAIN cache

\* C5 (as amended): once a GetProp(name, cache=True) has returned a value, every
\* GetProp(name, cache=True) before the next SetProp on name or Reboot issues no
\* shell query and returns the stored value.
C5_CachedGetPropServed ==
  [][(lastOp'.op = "GetProp" /\ lastOp'.flag /\ lastOp'.name \in retd)
       => /\ ~lastOp'.q
          /\ lastOp'.exc = "none"
          /\ lastOp'.val = cache[PropKey(lastOp'.name)]]_vars

C5_Witness ==
  /\ lastOp.op = "GetProp" /\ lastOp.flag /\ ~lastOp.q
  /\ lastOp.name \in retd
  /\ lastOp.val = cache[PropKey(lastOp.name)]

\* C5 (as stated): of consecutive GetProp(name, cache=True) calls every one after the
\* first issues no shell query.
C5_OneQueryInTotal ==
  [][(/\ lastOp.op = "GetProp" /\ lastOp.flag
      /\ lastOp'.op = "GetProp" /\ lastOp'.flag /\ lastOp'.name = lastOp.name)
       => ~lastOp'.q]_vars

\* C6: when Reboot has issued the reboot command, no entry cached before it is left
\* in the cache when the call ends: every entry was stored by a query made after it.
C6_RebootLeavesNoStaleEntry ==
  (lastOp.op = "Reboot" /\ lastOp.q) => stale \cap DOMAIN cache = {}

C6_Witness ==
  /\ lastOp.op = "Reboot" /\ lastOp.q /\ lastOp.exc = "none"
  /\ lastOp.flag
  /\ ExtKey \in DOMAIN cache

\* C7: a successful EnableRoot leaves no needs_su entry, and every other entry cached
\* before the call is still cached with the same value.
C7_EnableRootPurgesOnlyNeedsSu ==
  [][(lastOp'.op = "EnableRoot" /\ lastOp'.exc = "none")
       => /\ NeedsSuKey \notin DOMAIN cache'
          /\ \A k \in DOMAIN cache \ {NeedsSuKey} :
               k \in DOMAIN cache' /\ cache'[k] = cache[k]]_vars

C7_Witness ==
  /\ lastOp.op = "EnableRoot" /\ lastOp.exc = "none" /\ lastOp.flag
  /\ NeedsSuKey \notin DOMAIN cache
  /\ ExtKey \in DOMAIN cache

\* C8: a NeedsSU that directly follows a NeedsSU that returned issues no probe and
\* returns the same value.
C8_SecondNeedsSUFromCache ==
  [][(lastOp.op = "NeedsSU" /\ lastOp.exc = "none" /\ lastOp'.op = "NeedsSU")
       => /\ ~lastOp'.q
          /\ lastOp'.exc = "none"
          /\ lastOp'.val = lastOp.val]_vars

C8_Witness ==
  /\ lastOp.op = "NeedsSU" /\ lastOp.flag /\ ~lastOp.q /\ lastOp.exc = "none"
  /\ lastOp.val = cache[NeedsSuKey]

(***************************************************************************)
(* RunShellCommand on its own: the command's final length, what adb.Shell  *)
(* gives for it, and the two flags.                                        *)
(***************************************************************************)
_MAX_ADB_COMMAND_LENGTH == 512

_MAX_ADB_OUTPUT_LENGTH == 32768

MaxOutputParts == 3

OutputChunks == {[t |-> "a", n |-> 1], [t |-> "b", n |-> 1], LF, CR}

Outputs == UNION {[1..k -> OutputChunks] : k \in 0..MaxOutputParts}

ShellExits == {"none", "AdbCommandFailedError", "CommandTimeoutError"}

MaxKeyLen == 2

\* The final command's lengths: around the limit.
CmdLengths ==
  {_MAX_ADB_COMMAND_LENGTH - 1, _MAX_ADB_COMMAND_LENGTH, _MAX_ADB_COMMAND_LENGTH + 1}

\* adb.Shell(cmd): the output on exit 0, AdbCommandFailedError carrying the output
\* on a nonzero exit, any other error without output.
AdbShell(out, exit) ==
  IF exit = "none" THEN ShellOk(out)
  ELSE IF exit = "AdbCommandFailedError" THEN ShellRaise(exit, out)
  ELSE ShellRaise(exit, EmptyStr)

\* How the command reaches the device: inline, or as a script pushed to a temp file.
CommandRouteInlineAtLimit(cmdLen) ==
  IF cmdLen <= _MAX_ADB_COMMAND_LENGTH THEN "inline" ELSE "script"

CommandRoute(cmdLen) ==
  IF cmdLen < _MAX_ADB_COMMAND_LENGTH THEN "inline" ELSE "script"

\* A key of env is a sequence of characters, each standing for its class: "A" a
\* letter or '_', "1" a digit, "-" any other character but "\n", and "\n" itself.
KeyChars == {"A", "1", "-", "\n"}

EnvKeys == UNION {[1..k -> KeyChars] : k \in 0..MaxKeyLen}

\* _VALID_SHELL_VARIABLE.match(key) for '^[a-zA-Z_][a-zA-Z0-9_]*$': in Python's re,
\* '$' matches at the end of the string and also just before a "\n" that ends it.
_VALID_SHELL_VARIABLE(key) ==
  /\ Len(key) >= 1
  /\ key[1] = "A"
  /\ \E end \in {Len(key)} \cup (IF key[Len(key)] = "\n" THEN {Len(key) - 1} ELSE {}) :
       /\ end >= 1
       /\ \A i \in 2..end : key[i] \in {"A", "1"}

\* env: the set of its keys; the empty set is env=None as well as env={} ('if env').
Envs == {{}} \cup {{k} : k \in EnvKeys} \cup {{<<"A">>, k} : k \in EnvKeys}

\* env_quote raises KeyError for some key of env.
EnvRaises(env) == \E key \in env : ~_VALID_SHELL_VARIABLE(key)

\* RunShellCommand(..., as_root=as_root): 'if as_root and self.NeedsSU()'.
\* with device_temp_file.DeviceTempFile(self.adb) as f: the file exists in the body
\* of the with statement and is removed when the body is left, by its end, by a
\* return or by an exception.  [made: the scope was entered, left: the file is
\* there after the operation]
DeviceTempFileKeptOnRaise(entered, bodyExc) ==
  [made |-> entered, left |-> entered /\ bodyExc # "none"]

DeviceTempFile(entered, bodyExc) == [made |-> entered, left |-> FALSE]

AsRootNeedsSU(c, as_root, su, fault) ==
  IF as_root THEN NeedsSUImpl(c, su, fault) ELSE Served(c, FALSE)

\* The command as RunShellCommand builds it, a sequence of pieces: "cmd" stands for
\* the command given, "env" for the assignments of env, "cwd" for the quoted
\* directory, and "SingleQuote(" ... ")" delimit what cmd_helper.SingleQuote is
\* applied to.  cwd: a directory is given ('if cwd'); root: as_root and NeedsSU().
BuildCommandRootFirst(env, cwd, root) ==
  LET c1 == IF root THEN <<"su -c sh -c ", "SingleQuote(", "cmd", ")">> ELSE <<"cmd">>
      c2 == IF env # {} THEN <<"env", " ">> \o c1 ELSE c1
  IN IF cwd THEN <<"cd ", "cwd", " && ">> \o c2 ELSE c2

BuildCommand(env, cwd, root) ==
  LET c1 == IF env # {} THEN <<"env", " ">> \o <<"cmd">> ELSE <<"cmd">>
      c2 == IF cwd THEN <<"cd ", "cwd", " && ">> \o c1 ELSE c1
  IN IF root THEN <<"su -c sh -c ", "SingleQuote(">> \o c2 \o <<")">> ELSE c2

ShellCall(output, exit, cmdLen, check_return, single_line, pushFault, env, as_root, suFault, cwd) ==
  [op |-> "call RunShellCommand", output |-> output, exit |-> exit, cmdLen |-> cmdLen,
   check_return |-> check_return, single_line |-> single_line,
   pushFault |-> pushFault, env |-> env, as_root |-> as_root, suFault |-> suFault,
   cwd |-> cwd]

\* The calls of RunShellCommand that differ in what the device answers: the output
\* and exit adb.Shell has for the command, whether the push of the script fails, and
\* the two flags; no env, no as_root, no cwd.
ShellCalls ==
  {c \in {ShellCall(o, e, n, cr, sl, pf, {}, FALSE, "none", FALSE) :
            o \in Outputs, e \in ShellExits,
            n \in {_MAX_ADB_COMMAND_LENGTH - 1, _MAX_ADB_COMMAND_LENGTH},
            cr \in BOOLEAN, sl \in BOOLEAN, pf \in Faults} :
     c.cmdLen < _MAX_ADB_COMMAND_LENGTH => c.pushFault = "none"}

\* The calls of RunShellCommand that differ in its arguments: env, as_root, cwd and
\* the final command's length, on a device that answers with one line.
ArgCalls ==
  {c \in {ShellCall(<<Text("a", 1), LF>>, e, n, cr, sl, pf, env, ar, sf, cwd) :
            e \in ShellExits, n \in CmdLengths, cr \in BOOLEAN, sl \in BOOLEAN,
            pf \in Faults, env \in Envs, ar \in BOOLEAN, sf \in Faults,
            cwd \in BOOLEAN} :
     /\ (~c.as_root \/ EnvRaises(c.env)) => c.suFault = "none"
     /\ c.suFault # "none" => (c.pushFault = "none" /\ c.exit = "none")
     /\ c.cmdLen < _MAX_ADB_COMMAND_LENGTH => c.pushFault = "none"
     /\ c.pushFault # "none" => c.exit = "none"}

\* lastOp.probed: NeedsSU ran its probe on the device; lastOp.pushed: the script was
\* pushed (or the push was tried); lastOp.ran: adb.Shell was called with the command;
\* lastOp.route: how the command was sent, "none" when the call ended before that;
\* lastOp.tmp: the script file of a command sent as a script; lastOp.cmd: the
\* command built, empty when the call ended before that.
RunShell ==
  /\ lastOp.op = "call RunShellCommand"
  /\ LET c == lastOp
         su == IF EnvRaises(c.env) THEN Served(cache, FALSE)
               ELSE AsRootNeedsSU(cache, c.as_root, devSu, c.suFault)
         reached == ~EnvRaises(c.env) /\ su.exc = "none"
         route == IF reached THEN CommandRoute(c.cmdLen) ELSE "none"
         r == IF EnvRaises(c.env) THEN [exc |-> "KeyError", val |-> EmptyStr]
              ELSE IF su.exc # "none" THEN [exc |-> su.exc, val |-> EmptyStr]
              ELSE IF route = "script" /\ c.pushFault # "none"
                THEN [exc |-> c.pushFault, val |-> EmptyStr]
              ELSE RunShellCommand(AdbShell(c.output, c.exit), c.check_return,
                                   c.single_line)
     IN /\ cache' = su.cache
        /\ lastOp' = [op |-> "RunShellCommand", output |-> c.output, exit |-> c.exit,
                      check_return |-> c.check_return, single_line |-> c.single_line,
                      env |-> c.env, as_root |-> c.as_root, cmdLen |-> c.cmdLen,
                      cwd |-> c.cwd,
                      cmd |-> IF reached THEN BuildCommand(c.env, c.cwd, su.val)
                              ELSE <<>>,
                      probed |-> su.q, route |-> route,
                      pushed |-> (route = "script"),
                      ran |-> (route = "inline"
                                 \/ (route = "script" /\ c.pushFault = "none")),
                      exc |-> r.exc, val |-> r.val,
                      tmp |-> DeviceTempFile(route = "script", r.exc)]
  /\ UNCHANGED <<sessions, devProps, devSu, devExt, stale, retd, notCacheVars>>

InitShell ==
  /\ sessions = NoSessions
  /\ cache = EmptyCache /\ devSu = FALSE
  /\ CacheUnused /\ KillUnused /\ FileUnused /\ PushUnused
  /\ lastOp \in ShellCalls

NextShell == RunShell

SpecShell == InitShell /\ [][NextShell]_vars

\* The same operation over its arguments; the session may hold 'needs_su' already.
InitShellArgs ==
  /\ sessions = NoSessions
  /\ devSu \in BOOLEAN
  /\ cache \in {EmptyCache, Put(EmptyCache, NeedsSuKey, devSu)}
  /\ CacheUnused /\ KillUnused /\ FileUnused /\ PushUnused
  /\ lastOp \in ArgCalls
  /\ ~lastOp.as_root => (devSu = FALSE /\ cache = EmptyCache)
  /\ cache # EmptyCache => lastOp.suFault = "none"

SpecShellArgs == InitShellArgs /\ [][NextShell]_vars

\* C9: RunShellCommand with single_line=True returns '' when the command's output has
\* no line, the line itself when it has exactly one, and raises CommandFailedError
\* carrying all the lines when it has two or more.
C9_SingleLineContract ==
  (/\ lastOp.op = "RunShellCommand" /\ lastOp.single_line /\ lastOp.ran
   /\ (lastOp.exit = "none" \/ (lastOp.exit = "AdbCommandFailedError" /\ ~lastOp.check_return)))
    => LET lines == splitlines(lastOp.output) IN
         /\ Len(lines) = 0 => (lastOp.exc = "none" /\ lastOp.val = EmptyStr)
         /\ Len(lines) = 1 => (lastOp.exc = "none" /\ lastOp.val = lines[1])
         /\ Len(lines) >= 2 => (lastOp.exc = "CommandFailedError" /\ lastOp.val = lines)

C9_Witness ==
  /\ lastOp.op = "RunShellCommand" /\ lastOp.single_line /\ lastOp.exit = "none"
  /\ lastOp.exc = "CommandFailedError"
  /\ Len(lastOp.val) = 2 /\ lastOp.val[1] # lastOp.val[2]

\* C12: when the command run on the device exits nonzero, RunShellCommand with
\* check_return=False does not raise AdbCommandFailedError and works on the failure's
\* output as on a normal output (its lines, or the single_line contract on them);
\* with check_return=True it raises AdbCommandFailedError.
C12_CheckReturnDecidesPropagation ==
  (lastOp.op = "RunShellCommand" /\ lastOp.ran /\ lastOp.exit = "AdbCommandFailedError")
    => /\ lastOp.check_return => lastOp.exc = "AdbCommandFailedError"
       /\ ~lastOp.check_return => lastOp.exc # "AdbCommandFailedError"
       /\ (~lastOp.check_return /\ ~lastOp.single_line)
            => (lastOp.exc = "none" /\ lastOp.val = splitlines(lastOp.output))
       /\ (~lastOp.check_return /\ lastOp.single_line)
            => LET r == SingleLine(splitlines(lastOp.output))
               IN lastOp.exc = r.exc /\ lastOp.val = r.val

C12_Witness ==
  /\ lastOp.op = "RunShellCommand" /\ lastOp.ran /\ lastOp.exit = "AdbCommandFailedError"
  /\ ~lastOp.check_return /\ ~lastOp.single_line
  /\ lastOp.exc = "none" /\ Len(lastOp.val) = 2 /\ lastOp.route = "script"

\* A shell variable name: a letter or '_', then letters, digits and '_' to the end.
IsShellVariableName(key) ==
  /\ Len(key) >= 1
  /\ key[1] = "A"
  /\ \A i \in 2..Len(key) : key[i] \in {"A", "1"}

\* C13: RunShellCommand with an env that holds a key which is not a shell variable
\* name (^[A-Za-z_][A-Za-z0-9_]*$) raises KeyError before any remote call: no NeedsSU
\* probe, no push of a script, no adb.Shell, whatever the other arguments.
C13_InvalidKeyRaisesBeforeRemoteCall ==
  (lastOp.op = "RunShellCommand" /\ \E key \in lastOp.env : ~IsShellVariableName(key))
    => (lastOp.exc = "KeyError" /\ ~lastOp.probed /\ ~lastOp.pushed /\ ~lastOp.ran)

\* C14 (as amended): RunShellCommand sends the final command inline exactly when its
\* length is below 512, and as 'sh <script>' after pushing it to a temporary script
\* exactly when its length is 512 or more; a command of length 512 goes by script.
C14_InlineBelowLimit ==
  (lastOp.op = "RunShellCommand" /\ lastOp.route # "none")
    => /\ lastOp.route = "inline" <=> lastOp.cmdLen < _MAX_ADB_COMMAND_LENGTH
       /\ lastOp.route = "script" <=> lastOp.cmdLen >= _MAX_ADB_COMMAND_LENGTH
       /\ lastOp.pushed <=> lastOp.route = "script"

C14_Witness ==
  /\ lastOp.op = "RunShellCommand" /\ lastOp.cmdLen = _MAX_ADB_COMMAND_LENGTH
  /\ lastOp.route = "script" /\ lastOp.pushed /\ lastOp.ran /\ lastOp.exc = "none"
  /\ lastOp.as_root /\ lastOp.env # {}

\* C14 (as stated): the final command goes inline whenever its length does not
\* exceed 512, and by script only when it exceeds 512.
C14_InlineUpToLimit ==
  (lastOp.op = "RunShellCommand" /\ lastOp.route # "none")
    => /\ lastOp.cmdLen <= _MAX_ADB_COMMAND_LENGTH => lastOp.route = "inline"
       /\ lastOp.route = "script" => lastOp.cmdLen > _MAX_ADB_COMMAND_LENGTH

(***************************************************************************)
(* KillAll(process_name, signum, as_root, blocking) with _GetPidsImpl.     *)
(* A process name is a sequence of tokens, so that 'x in name' is a real   *)
(* substring test; a line of ps is the sequence of its fields.             *)
(***************************************************************************)
MaxPid == 3

Pids == 1..MaxPid

ProcessNames == {<<"app">>, <<"app", ":svc">>, <<"sh">>}

KillNames == {<<"app">>, <<":svc">>, <<"zygote">>}

ProcTables == UNION {[S -> ProcessNames] : S \in SUBSET Pids}

\* process_name in field
Contains(process_name, field) ==
  \E i \in 1..(Len(field) - Len(process_name) + 1) :
    SubSeq(field, i, i + Len(process_name) - 1) = process_name

\* The lines of 'ps', split into fields: the header, then a line per process by pid.
RECURSIVE PsFrom(_, _)
PsFrom(table, p) ==
  IF p > MaxPid THEN <<>>
  ELSE (IF p \in DOMAIN table THEN <<<< <<"root">>, p, table[p] >>>> ELSE <<>>)
         \o PsFrom(table, p + 1)

PsLines(table) == << << <<"USER">>, <<"PID">>, <<"NAME">> >> >> \o PsFrom(table, 1)

\* _GetPidsImpl: procs_pids[ps_data[-1]] = ps_data[1] for every line whose last
\* field contains process_name; a line too short for that is skipped.
RECURSIVE GetPidsFrom(_, _, _)
GetPidsFrom(lines, process_name, procs_pids) ==
  IF lines = <<>> THEN procs_pids
  ELSE LET ps_data == Head(lines) IN
       GetPidsFrom(Tail(lines), process_name,
         IF Len(ps_data) >= 2 /\ Contains(process_name, ps_data[Len(ps_data)])
           THEN Put(procs_pids, ps_data[Len(ps_data)], ps_data[2])
           ELSE procs_pids)

GetPidsImpl(table, process_name) == GetPidsFrom(PsLines(table), process_name, EmptyCache)

\* pids.values()
Values(d) == {d[k] : k \in DOMAIN d}

KillOp(name, blocking, listed, exc, sent, cmd, matching, val) ==
  [op |-> "KillAll", name |-> name, blocking |-> blocking, listed |-> listed,
   exc |-> exc, sent |-> sent, cmd |-> cmd, matching |-> matching, val |-> val]

\* KillAll's 'if not pids' gives up before any kill command.
NoPidsNever(pids) == FALSE

NoPids(pids) == DOMAIN pids = {}

\* The call up to its blocking loop.  lastOp.sent: the kill command was run, on the
\* pids lastOp.cmd; lastOp.matching: ghost, the pids whose name contained process_name
\* when ps listed them; lastOp.listed: ghost, ps returned its listing.
KillAllCall ==
  /\ kpc = "idle"
  /\ \E process_name \in KillNames :
     \E pids \in {GetPidsImpl(procs, process_name)},
        matching \in {{p \in DOMAIN procs : Contains(process_name, procs[p])}},
        blocking \in BOOLEAN, as_root \in BOOLEAN,
        psFault \in Faults, suFault \in Faults, killFault \in Faults :
      LET su == IF as_root /\ psFault = "none" /\ DOMAIN pids # {}
                  THEN NeedsSUImpl(cache, devSu, suFault) ELSE Served(cache, FALSE)
          fail(e) == KillOp(process_name, blocking, psFault = "none", e, FALSE, {},
                            matching, 0)
      IN
        /\ (psFault # "none" \/ DOMAIN pids = {}) => (suFault = "none" /\ killFault = "none")
        /\ ~su.q => suFault = "none"
        /\ su.exc # "none" => killFault = "none"
        /\ cache' = su.cache
        /\ IF psFault # "none"
             THEN lastOp' = fail(psFault) /\ UNCHANGED killVars
           ELSE IF NoPids(pids)
             THEN lastOp' = fail("CommandFailedError") /\ UNCHANGED killVars
           ELSE IF su.exc # "none"
             THEN lastOp' = fail(su.exc) /\ UNCHANGED killVars
           ELSE IF killFault # "none"
             THEN lastOp' = fail(killFault) /\ UNCHANGED killVars
           ELSE /\ dying' = dying \cup Values(pids)
                /\ procs' = procs
                /\ kpc' = IF blocking THEN "waiting" ELSE "idle"
                /\ lastOp' = KillOp(process_name, blocking, TRUE,
                                    IF blocking THEN "pending" ELSE "none", TRUE,
                                    Values(pids), matching, Cardinality(DOMAIN pids))
  /\ UNCHANGED <<sessions, devProps, devSu, devExt, stale, retd, devFile, pushVars>>

\* One turn of 'while self._GetPidsImpl(process_name): time.sleep(wait_period)'.
KillAllPoll ==
  /\ kpc = "waiting"
  /\ \E psFault \in Faults :
       IF psFault # "none"
         THEN kpc' = "idle" /\ lastOp' = [lastOp EXCEPT !.exc = psFault]
       ELSE IF DOMAIN GetPidsImpl(procs, lastOp.name) = {}
         THEN kpc' = "idle" /\ lastOp' = [lastOp EXCEPT !.exc = "none"]
       ELSE UNCHANGED <<kpc, lastOp>>
  /\ UNCHANGED <<sessions, cacheVars, procs, dying, devFile, pushVars>>

\* The timeout of the call's decorator ends the blocking loop.
KillAllTimeout ==
  /\ kpc = "waiting"
  /\ kpc' = "idle"
  /\ lastOp' = [lastOp EXCEPT !.exc = "CommandTimeoutError"]
  /\ UNCHANGED <<sessions, cacheVars, procs, dying, devFile, pushVars>>

\* The device: a process that received the signal exits.
ProcessExits ==
  \E p \in dying :
    /\ procs' = [q \in DOMAIN procs \ {p} |-> procs[q]]
    /\ dying' = dying \ {p}
    /\ UNCHANGED <<sessions, cacheVars, kpc, devFile, pushVars, lastOp>>

InitKill ==
  /\ sessions = NoSessions
  /\ cache = EmptyCache /\ devSu \in BOOLEAN
  /\ CacheUnused /\ FileUnused /\ PushUnused
  /\ procs \in ProcTables
  /\ dying = {}
  /\ kpc = "idle"
  /\ lastOp = NoOp

NextKill == KillAllCall \/ KillAllPoll \/ KillAllTimeout \/ ProcessExits

SpecKill == InitKill /\ [][NextKill]_vars

\* C10: the kill command of KillAll names every pid whose process name contains
\* process_name, also when several of these processes have the same name.
C10_SignalsEveryMatchingPid ==
  (lastOp.op = "KillAll" /\ lastOp.sent) => lastOp.cmd = lastOp.matching

\* C11: a KillAll whose listing holds no process name that contains process_name
\* raises CommandFailedError and runs no kill command; it does not return 0.
C11_NoMatchRaisesWithoutKill ==
  (lastOp.op = "KillAll" /\ lastOp.listed /\ lastOp.matching = {})
    => (lastOp.exc = "CommandFailedError" /\ ~lastOp.sent /\ lastOp.cmd = {})

C11_Witness ==
  /\ lastOp.op = "KillAll" /\ lastOp.listed /\ lastOp.matching = {}
  /\ lastOp.exc = "CommandFailedError" /\ ~lastOp.sent
  /\ procs # NoProcs /\ dying = {}

(***************************************************************************)
(* ReadFile(device_path, as_root) and                                      *)
(* WriteFile(device_path, contents, as_root, force_push) on one path.      *)
(***************************************************************************)
MaxContentParts == 2

\* Pieces of text whose lengths put contents on both sides of the two limits.
ContentChunks ==
  {[t |-> "x", n |-> _MAX_ADB_COMMAND_LENGTH - 1],
   [t |-> "x", n |-> _MAX_ADB_OUTPUT_LENGTH],
   LF, CR}

IsText(c) == c # LF /\ c # CR

\* The contents: no two pieces of text in a row, so a string has one representation.
Contents ==
  {s \in UNION {[1..k -> ContentChunks] : k \in 0..MaxContentParts} :
     \A i \in 1..(Len(s) - 1) : ~(IsText(s[i]) /\ IsText(s[i + 1]))}

\* The shell's terminal may send every "\n" of a command's output as "\r\n".
RECURSIVE Crlf(_)
Crlf(s) ==
  IF s = <<>> THEN <<>>
  ELSE (IF Head(s) = LF THEN <<CR, LF>> ELSE <<Head(s)>>) \o Crlf(Tail(s))

\* What 'ls -l device_path' gives ReadFile: a line for the file with its size, no
\* line that matches the file's name, or a matching line without a size field.
LsKinds == {"size", "nomatch", "nosize"}

\* The size ReadFile has after ls: a number, or None.
SizeNone == [known |-> FALSE, n |-> 0]

Size(n) == [known |-> TRUE, n |-> n]

\* lastOp.size: the size ReadFile took from the listing (SizeNone elsewhere);
\* lastOp.tmp: the device temp file of the operation; lastOp.ls: ghost, what the
\* listing held for the file, "none" when ls was not run or failed.
FileOp(op, route, size, exc, val, afterWrite, written, tmp, ls) ==
  [op |-> op, route |-> route, size |-> size, exc |-> exc, val |-> val,
   afterWrite |-> afterWrite, written |-> written, tmp |-> tmp, ls |-> ls]

\* What a remote call of ReadFile and WriteFile can end with: a timeout, or the
\* failure of the command (of the echo, the cp, the cat, the push or the pull).
FileFaults == Faults \cup {"AdbCommandFailedError"}

\* The length of 'echo -n %s > %s' for the contents and a device path of 16
\* characters, neither of them needing quotes.
EchoCmdLen(contents) == 8 + StrLen(contents) + 3 + 16

\* The route WriteFile takes; lastOp.val of a WriteFile that returned is its contents,
\* lastOp.len the length of its contents, and lastOp.route is "none" when the call
\* ended before it wrote.
WriteRouteEchoAtLimit(contents, force_push, rootNeedsSu) ==
  IF ~force_push /\ StrLen(contents) <= _MAX_ADB_COMMAND_LENGTH THEN "echo"
  ELSE IF rootNeedsSu THEN "push_tmp_cp"
  ELSE "push"

WriteRoute(contents, force_push, rootNeedsSu) ==
  IF ~force_push /\ StrLen(contents) < _MAX_ADB_COMMAND_LENGTH THEN "echo"
  ELSE IF rootNeedsSu THEN "push_tmp_cp"
  ELSE "push"

WriteFile ==
  \E as_root \in BOOLEAN, suFault \in Faults :
   \E su \in {AsRootNeedsSU(cache, as_root, devSu, suFault)} :
   \E contents \in Contents, force_push \in BOOLEAN, fault \in FileFaults :
    LET route == IF su.exc # "none" THEN "none"
                 ELSE WriteRoute(contents, force_push, su.val)
        exc == IF su.exc # "none" THEN su.exc ELSE fault
        \* the echo is a RunShellCommand: a long one is sent as a script
        scoped == \/ route = "push_tmp_cp"
                  \/ route = "echo" /\ CommandRoute(EchoCmdLen(contents)) = "script"
    IN
      /\ ~su.q => suFault = "none"
      /\ su.exc # "none" => fault = "none"
      /\ cache' = su.cache
      /\ devFile' = IF exc = "none" THEN File(contents) ELSE devFile
      /\ lastOp' = [op |-> "WriteFile", route |-> route, exc |-> exc,
                    val |-> IF exc = "none" THEN contents ELSE EmptyStr,
                    len |-> StrLen(contents), as_root |-> as_root,
                    force_push |-> force_push, tmp |-> DeviceTempFile(scoped, exc)]
      /\ UNCHANGED <<sessions, devProps, devSu, devExt, stale, retd, killVars, pushVars>>

\* The route ReadFile takes once ls has answered.
ReadRoutePullWhenUnknown(size, rootNeedsSu) ==
  IF size.known /\ size.n <= _MAX_ADB_OUTPUT_LENGTH THEN "cat"
  ELSE IF rootNeedsSu THEN "cp_tmp_pull"
  ELSE "pull"

ReadRoute(size, rootNeedsSu) ==
  IF ~size.known \/ size.n <= _MAX_ADB_OUTPUT_LENGTH THEN "cat"
  ELSE IF rootNeedsSu THEN "cp_tmp_pull"
  ELSE "pull"

\* lastOp.afterWrite, lastOp.written: ghost, the operation before this one was a
\* WriteFile that returned, and the contents it wrote.
ReadFile ==
  \E as_root \in BOOLEAN, suFault \in Faults, crlf \in BOOLEAN, fault \in FileFaults :
   \E su \in {AsRootNeedsSU(cache, as_root, devSu, suFault)},
      cat \in {RunShellCommand(AdbShell(IF crlf THEN Crlf(devFile.content)
                                                ELSE devFile.content, fault),
                               TRUE, FALSE)} :
   \E lsKind \in LsKinds, lsFault \in Faults :
    LET rootNeedsSu == su.exc = "none" /\ su.val
        size == IF lsKind = "size" THEN Size(StrLen(devFile.content)) ELSE SizeNone
        route == ReadRoute(size, rootNeedsSu)
        afterWrite == lastOp.op = "WriteFile" /\ lastOp.exc = "none"
        written == IF afterWrite THEN lastOp.val ELSE EmptyStr
        done(r, e, v) == FileOp("ReadFile", r, IF r = "none" THEN SizeNone ELSE size,
                                e, v, afterWrite, written,
                                DeviceTempFile(r = "cp_tmp_pull", e),
                                IF su.exc = "none" /\ lsFault = "none" /\ devFile.exists
                                  THEN lsKind ELSE "none")
    IN
      /\ ~su.q => suFault = "none"
      /\ su.exc # "none" => (lsFault = "none" /\ fault = "none")
      /\ (lsFault # "none" \/ ~devFile.exists \/ lsKind = "nosize") => fault = "none"
      /\ (~devFile.exists \/ lsFault # "none") => lsKind = "size"
      /\ (route # "cat" \/ ~devFile.exists) => ~crlf
      /\ cache' = su.cache
      /\ lastOp' =
           IF su.exc # "none" THEN done("none", su.exc, EmptyStr)
           ELSE IF lsFault # "none" THEN done("none", lsFault, EmptyStr)
           ELSE IF ~devFile.exists THEN done("none", "AdbCommandFailedError", EmptyStr)
           ELSE IF lsKind = "nosize" THEN done("none", "TypeError", EmptyStr)
           ELSE IF route = "cat"
             THEN (IF cat.exc # "none" THEN done(route, cat.exc, EmptyStr)
                   ELSE done(route, "none", JoinLines(cat.val)))
           ELSE IF fault # "none" THEN done(route, fault, EmptyStr)
           ELSE done(route, "none", devFile.content)
      /\ UNCHANGED <<sessions, devProps, devSu, devExt, stale, retd, killVars, devFile, pushVars>>

InitFile ==
  /\ sessions = NoSessions
  /\ cache = EmptyCache /\ devSu \in BOOLEAN
  /\ CacheUnused /\ KillUnused /\ PushUnused
  /\ devFile \in {NoFile} \cup {File(c) : c \in Contents}
  /\ lastOp = NoOp

NextFile == WriteFile \/ ReadFile

SpecFile == InitFile /\ [][NextFile]_vars

\* A content every line of which ends with "\n" and that holds no "\r".
Normalized(s) ==
  s = <<>> \/ (s[Len(s)] = LF /\ \A i \in 1..Len(s) : s[i] # CR)

C16_WriteRoutes ==
  (lastOp.op = "WriteFile" /\ lastOp.route # "none")
    => LET short == lastOp.len < _MAX_ADB_COMMAND_LENGTH
           echo == ~lastOp.force_push /\ short
       IN /\ lastOp.route = "echo" <=> echo
          /\ lastOp.route = "push_tmp_cp" <=> (~echo /\ lastOp.as_root /\ devSu)
          /\ lastOp.route = "push" <=> (~echo /\ ~(lastOp.as_root /\ devSu))

C16_Witness ==
  /\ lastOp.op = "WriteFile" /\ lastOp.route = "push_tmp_cp" /\ lastOp.exc = "none"
  /\ ~lastOp.force_push /\ lastOp.len = _MAX_ADB_COMMAND_LENGTH
  /\ devFile = File(lastOp.val)

\* C15 (as amended): once the listing has answered, ReadFile reads through cat when
\* no line of the listing matched the file's name (size unknown) or when the listed
\* size is at most 32768; it pulls only when the size is known and exceeds 32768.
C15_CatUnlessKnownLarge ==
  (lastOp.op = "ReadFile" /\ lastOp.route # "none")
    => /\ lastOp.route = "cat"
            <=> (~lastOp.size.known \/ lastOp.size.n <= _MAX_ADB_OUTPUT_LENGTH)
       /\ lastOp.route \in {"pull", "cp_tmp_pull"}
            <=> (lastOp.size.known /\ lastOp.size.n > _MAX_ADB_OUTPUT_LENGTH)

C15_Witness ==
  /\ lastOp.op = "ReadFile" /\ lastOp.route = "cat" /\ lastOp.exc = "none"
  /\ ~lastOp.size.known
  /\ StrLen(devFile.content) > _MAX_ADB_OUTPUT_LENGTH

\* C15 (as stated): ReadFile reads through cat only when the size was taken from the
\* listing and is at most 32768; with an unknown size it pulls.
C15_CatOnlyWhenKnownSmall ==
  (lastOp.op = "ReadFile" /\ lastOp.route # "none")
    => /\ lastOp.route = "cat"
            => (lastOp.size.known /\ lastOp.size.n <= _MAX_ADB_OUTPUT_LENGTH)
       /\ ~lastOp.size.known => lastOp.route \in {"pull", "cp_tmp_pull"}

(***************************************************************************)
(* The host and device file trees of PushChangedFiles.  A path is the      *)
(* sequence of its components.  The host has the directory A with the      *)
(* files of Names and the single file F; the device has the directory D    *)
(* and the symbolic link L to it.                                          *)
(***************************************************************************)
Hashes == {"H1", "H2"}

Names == <<"a", "b", "c">>

HostDir == <<"A">>

HostFile == <<"F">>

HostFilePaths == {HostDir \o <<Names[i]>> : i \in DOMAIN Names} \cup {HostFile}

DevDir == <<"D">>

DevLink == <<"L">>

DevFilePaths == {DevDir \o <<Names[i]>> : i \in DOMAIN Names}

Unit(h, d) == [host |-> h, dev |-> d]

\* os.path.isdir(h); every other host path of the model is a file
isdir(h) == h = HostDir

\* os.path.relpath(p, start) for p under start
relpath(p, start) == SubSeq(p, Len(start) + 1, Len(p))

\* os.walk(h): the files under the directory, by name
RECURSIVE WalkFrom(_, _)
WalkFrom(hfs, i) ==
  IF i > Len(Names) THEN <<>>
  ELSE (IF hfs[HostDir \o <<Names[i]>>] # None THEN <<HostDir \o <<Names[i]>>>> ELSE <<>>)
         \o WalkFrom(hfs, i + 1)

HostWalk(hfs, h) == IF isdir(h) THEN WalkFrom(hfs, 1) ELSE <<h>>

\* md5sum.CalculateHostMd5Sums([h]): a (hash, path) for every file under h
CalculateHostMd5Sums(hfs, h) ==
  LET w == HostWalk(hfs, h) IN [i \in 1..Len(w) |-> [hash |-> hfs[w[i]], path |-> w[i]]]

\* The bytes of a file by its content.
FileSize(hash) == IF hash = "H1" THEN 1000 ELSE 16000000

RECURSIVE SumSizes(_, _)
SumSizes(hfs, paths) ==
  IF paths = <<>> THEN 0 ELSE FileSize(hfs[Head(paths)]) + SumSizes(hfs, Tail(paths))

\* host_utils.GetRecursiveDiskUsage(h)
GetRecursiveDiskUsage(hfs, h) == SumSizes(hfs, HostWalk(hfs, h))

\* The device path with its links followed.
Resolve(d) == IF Head(d) = Head(DevLink) THEN DevDir \o Tail(d) ELSE d

DevExists(fs, d) ==
  LET r == Resolve(d) IN
  IF r = DevDir THEN Head(DevDir) \in fs.dirs ELSE fs.files[r] # None

\* RunShellCommand(['realpath', device_path], single_line=True, check_return=True),
\* CommandFailedError caught: <<the real path>>, or <<>> for None.  rpOk: the device
\* runs realpath.
realpath(fs, d, rpOk) == IF rpOk /\ DevExists(fs, d) THEN <<Resolve(d)>> ELSE <<>>

\* md5sum.CalculateDeviceMd5Sums(paths): a (hash, path) for every path that is a file
CalculateDeviceMd5Sums(fs, paths) ==
  LET present(p) == fs.files[p] # None
      found == SelectSeq(paths, present)
  IN [i \in 1..Len(found) |-> [hash |-> fs.files[found[i]], path |-> found[i]]]

\* device_tuple_dict = dict((d.path, d.hash) for d in device_hash_tuples)
InDict(device_hash_tuples, path) ==
  \E j \in DOMAIN device_hash_tuples : device_hash_tuples[j].path = path

DictGet(device_hash_tuples, path) ==
  LET j == CHOOSE k \in DOMAIN device_hash_tuples :
             /\ device_hash_tuples[k].path = path
             /\ \A m \in DOMAIN device_hash_tuples :
                  device_hash_tuples[m].path = path => m <= k
  IN device_hash_tuples[j].hash

\* The loop over host_hash_tuples that fills to_push.
RECURSIVE ToPushMissingOnly(_, _, _, _)
ToPushMissingOnly(host_hash_tuples, device_hash_tuples, real_host_path, real_device_path) ==
  IF host_hash_tuples = <<>> THEN <<>>
  ELSE LET h == Head(host_hash_tuples)
           device_abs_path == real_device_path \o relpath(h.path, real_host_path)
       IN (IF ~InDict(device_hash_tuples, device_abs_path)
             THEN <<Unit(h.path, device_abs_path)>> ELSE <<>>)
            \o ToPushMissingOnly(Tail(host_hash_tuples), device_hash_tuples,
                                 real_host_path, real_device_path)

RECURSIVE ToPush(_, _, _, _)
ToPush(host_hash_tuples, device_hash_tuples, real_host_path, real_device_path) ==
  IF host_hash_tuples = <<>> THEN <<>>
  ELSE LET h == Head(host_hash_tuples)
           device_abs_path == real_device_path \o relpath(h.path, real_host_path)
       IN (IF \/ ~InDict(device_hash_tuples, device_abs_path)
              \/ DictGet(device_hash_tuples, device_abs_path) # h.hash
             THEN <<Unit(h.path, device_abs_path)>> ELSE <<>>)
            \o ToPush(Tail(host_hash_tuples), device_hash_tuples,
                      real_host_path, real_device_path)

\* _GetChangedFilesImpl(host_path, device_path): the list of (host, device) to push
GetChangedFilesAlwaysExpanding(hfs, fs, host_path, device_path, rpOk) ==
  LET w == HostWalk(hfs, host_path)
  IN [i \in 1..Len(w) |-> Unit(w[i], device_path \o relpath(w[i], host_path))]

GetChangedFilesImpl(hfs, fs, host_path, device_path, rpOk) ==
  LET rdp == realpath(fs, device_path, rpOk) IN
  IF rdp = <<>> THEN <<Unit(host_path, device_path)>>
  ELSE
    LET real_device_path == rdp[1]
        host_hash_tuples == CalculateHostMd5Sums(hfs, host_path)
        device_paths_to_md5 ==
          IF ~isdir(host_path) THEN <<real_device_path>>
          ELSE [i \in 1..Len(host_hash_tuples) |->
                  real_device_path \o relpath(host_hash_tuples[i].path, host_path)]
        device_hash_tuples == CalculateDeviceMd5Sums(fs, device_paths_to_md5)
    IN IF ~isdir(host_path)
         THEN (IF \/ device_hash_tuples = <<>>
                  \/ device_hash_tuples[1].hash # host_hash_tuples[1].hash
                 THEN <<Unit(host_path, device_path)>> ELSE <<>>)
         ELSE ToPush(host_hash_tuples, device_hash_tuples, host_path, real_device_path)

(***************************************************************************)
(* PushChangedFiles(host_device_tuples)                                    *)
(***************************************************************************)
MaxPairs == 2

TupleChoices ==
  {Unit(HostDir, DevDir), Unit(HostDir, DevLink), Unit(HostFile, DevDir \o <<Names[1]>>)}

TupleLists == UNION {[1..k -> TupleChoices] : k \in 1..MaxPairs}

\* RunShellCommand(['mkdir', '-p', d], check_return=True)
mkdir_p(fs, d) == [fs EXCEPT !.dirs = @ \cup {Head(Resolve(d))}]

\* 'if os.path.isdir(h):' of the first loop
MakesDirAlways(h) == TRUE

MakesDir(h) == isdir(h)

\* What PushChangedFiles does on the device and with the pairs, in order.
Event(e, h, d) == [e |-> e, host |-> h, dev |-> d]

\* The first loop: mkdir -p for a host directory, then the diff, pair by pair.
RECURSIVE DiffAll(_, _, _, _)
DiffAll(hfs, fs, tuples, rpOk) ==
  IF tuples = <<>> THEN [fs |-> fs, files |-> <<>>, log |-> <<>>]
  ELSE LET h == Head(tuples).host
           d == Head(tuples).dev
           fs1 == IF MakesDir(h) THEN mkdir_p(fs, d) ELSE fs
           changed == GetChangedFilesImpl(hfs, fs1, h, d, rpOk)
           rest == DiffAll(hfs, fs1, Tail(tuples), rpOk)
       IN [fs |-> rest.fs, files |-> changed \o rest.files,
           log |-> (IF MakesDir(h) THEN <<Event("mkdir", h, d)>> ELSE <<>>)
                     \o <<Event("diff", h, d)>> \o rest.log]

\* _ApproximateDuration, in ticks of 1/TicksPerSecond seconds so that it is exact.
TicksPerSecond == 20000000

ADB_CALL_PENALTY == TicksPerSecond \div 10

ADB_PUSH_PENALTY == TicksPerSecond \div 100

ZIP_PENALTY == 2 * TicksPerSecond

ZIP_RATE == 10000000

TRANSFER_RATE == 2000000

COMPRESSION_RATIO == 2

ApproximateDuration(adb_calls, file_count, byte_count, is_zipping) ==
  LET adb_call_time == ADB_CALL_PENALTY * adb_calls
      adb_push_setup_time == ADB_PUSH_PENALTY * file_count
      zip_time == IF is_zipping
                    THEN ZIP_PENALTY + byte_count * (TicksPerSecond \div ZIP_RATE)
                    ELSE 0
      transfer_time ==
        IF is_zipping
          THEN byte_count * (TicksPerSecond \div (TRANSFER_RATE * COMPRESSION_RATIO))
          ELSE byte_count * (TicksPerSecond \div TRANSFER_RATE)
  IN adb_call_time + adb_push_setup_time + zip_time + transfer_time

RECURSIVE SumUsage(_, _)
SumUsage(hfs, units) ==
  IF units = <<>> THEN 0
  ELSE GetRecursiveDiskUsage(hfs, Head(units).host) + SumUsage(hfs, Tail(units))

RECURSIVE DirFileCount(_, _)
DirFileCount(hfs, tuples) ==
  IF tuples = <<>> THEN 0
  ELSE (IF isdir(Head(tuples).host) THEN Len(HostWalk(hfs, Head(tuples).host)) ELSE 1)
         + DirFileCount(hfs, Tail(tuples))

\* push_duration, dir_push_duration and zip_duration of PushChangedFiles.
Durations(hfs, tuples, files) ==
  [file |-> ApproximateDuration(Len(files), Len(files), SumUsage(hfs, files), FALSE),
   dir |-> ApproximateDuration(Len(tuples), DirFileCount(hfs, tuples),
                               SumUsage(hfs, tuples), FALSE),
   zip |-> ApproximateDuration(1, 1, SumUsage(hfs, files), TRUE)]

\* 'if not files: return'
NothingToPushNever(files) == FALSE

NothingToPush(files) == files = <<>>

\* The choice between pushing the pairs ("dir"), the changed files ("file") and a zip.
ChooseStrategyIgnoringInstalled(hfs, tuples, files, commands_installed) ==
  LET size == SumUsage(hfs, files)
      file_count == Len(files)
      dir_size == SumUsage(hfs, tuples)
      dir_file_count == DirFileCount(hfs, tuples)
      push_duration == ApproximateDuration(file_count, file_count, size, FALSE)
      dir_push_duration == ApproximateDuration(Len(tuples), dir_file_count, dir_size, FALSE)
      zip_duration == ApproximateDuration(1, 1, size, TRUE)
  IN IF dir_push_duration < push_duration /\ dir_push_duration < zip_duration THEN "dir"
     ELSE IF push_duration < zip_duration THEN "file"
     ELSE "zip"

\* The zipped push whenever the commands are installed.
ChooseStrategyZipWhenInstalled(hfs, tuples, files, commands_installed) ==
  IF commands_installed THEN "zip"
  ELSE IF Durations(hfs, tuples, files).dir < Durations(hfs, tuples, files).file
    THEN "dir" ELSE "file"

ChooseStrategy(hfs, tuples, files, commands_installed) ==
  LET size == SumUsage(hfs, files)
      file_count == Len(files)
      dir_size == SumUsage(hfs, tuples)
      dir_file_count == DirFileCount(hfs, tuples)
      push_duration == ApproximateDuration(file_count, file_count, size, FALSE)
      dir_push_duration == ApproximateDuration(Len(tuples), dir_file_count, dir_size, FALSE)
      zip_duration == ApproximateDuration(1, 1, size, TRUE)
  IN IF dir_push_duration < push_duration
          /\ (dir_push_duration < zip_duration \/ ~commands_installed)
       THEN "dir"
     ELSE IF push_duration < zip_duration \/ ~commands_installed THEN "file"
     ELSE "zip"

\* _InstallCommands: probes and installs once; installOk: that went without exception.
InstallCommandsProbingAgain(commands_installed, installOk) ==
  IF installOk THEN "True" ELSE "False"

InstallCommands(commands_installed, installOk) ==
  IF commands_installed = None THEN (IF installOk THEN "True" ELSE "False")
  ELSE commands_installed

\* adb.Push(h, d), and the unzip of an entry: the file, or the files of the
\* directory, arrive at the destination with its links followed.
PushOne(hfs, fs, u) ==
  LET target == Resolve(u.dev) IN
  [dirs |-> fs.dirs \cup {Head(DevDir)},
   files |-> IF isdir(u.host)
               THEN [p \in DOMAIN fs.files |->
                       IF hfs[u.host \o relpath(p, target)] # None
                         THEN hfs[u.host \o relpath(p, target)] ELSE fs.files[p]]
               ELSE [fs.files EXCEPT ![target] = hfs[u.host]]]

\* The first k pushes of the list.
RECURSIVE ApplyUnitsButLast(_, _, _, _)
ApplyUnitsButLast(hfs, fs, units, k) ==
  IF k <= 1 \/ units = <<>> THEN fs
  ELSE ApplyUnitsButLast(hfs, PushOne(hfs, fs, Head(units)), Tail(units), k - 1)

RECURSIVE ApplyUnits(_, _, _, _)
ApplyUnits(hfs, fs, units, k) ==
  IF k = 0 \/ units = <<>> THEN fs
  ELSE ApplyUnits(hfs, PushOne(hfs, fs, Head(units)), Tail(units), k - 1)

\* What the chosen strategy pushes: the pairs as given, or the changed files.
PushListAlwaysTuples(strategy, tuples, files) == tuples

PushList(strategy, tuples, files) == IF strategy = "dir" THEN tuples ELSE files

PushOp(op, exc, resolved, units, strategy, sent, again, installed, chmod, zip, args, log) ==
  [op |-> op, exc |-> exc, resolved |-> resolved, units |-> units, strategy |-> strategy,
   sent |-> sent, again |-> again, installed |-> installed, chmod |-> chmod, zip |-> zip,
   chmodArgs |-> args, log |-> log]

\* The pushes of the list, as events.
Pushes(sent) == [k \in DOMAIN sent |-> Event("push", sent[k].host, sent[k].dev)]

\* The paths of 'chmod -R 777': [d for _, d in host_device_tuples].
ChmodArgsOfChanged(tuples, files) == [i \in DOMAIN files |-> files[i].dev]

ChmodArgs(tuples, files) == [i \in DOMAIN tuples |-> tuples[i].dev]

\* What IsOnline gives in the finally clause of _PushChangedFilesZipped: adb's state
\* is 'device', it is another one or adb fails, or the call times out.
IsOnlineOutcomes == {"True", "False", "CommandTimeoutError"}

\* The finally clause issues the rm of the archive.
RemovesArchiveAlways(isOnline) == TRUE

RemovesArchive(isOnline) == isOnline = "True"

\* The zipped push did not reach its try statement.
NoZip == [tried |-> FALSE, body |-> "none", online |-> "none", rm |-> FALSE,
          exc |-> "none"]

\* _PushChangedFilesZipped from its try statement on: body, what the push of the
\* archive and the unzip end with; isOnline, what IsOnline gives; rmFault, what the
\* rm ends with.  An exception of the finally clause replaces that of the body.
ZippedOutcome(body, isOnline, rmFault) ==
  [tried |-> TRUE, body |-> body, online |-> isOnline, rm |-> RemovesArchive(isOnline),
   exc |-> IF isOnline = "CommandTimeoutError" THEN "CommandTimeoutError"
           ELSE IF RemovesArchive(isOnline) /\ rmFault # "none" THEN rmFault
           ELSE body]

\* failAt: -1, a timeout in the first loop; k below the length of the push list, a
\* timeout after k of its pushes; its length, none.  chmodFault: what the chmod after
\* the unzip ends with.  lastOp.units: files; lastOp.sent: what was pushed;
\* lastOp.resolved: realpath ran; lastOp.again: ghost, the strategy of the
\* PushChangedFiles that returned right before this call, or "no";
\* lastOp.installed: _InstallCommands was called; lastOp.chmod: the chmod was run;
\* lastOp.zip: what _PushChangedFilesZipped did from its try statement on;
\* lastOp.chmodArgs: the paths the chmod names; lastOp.log: the mkdirs, diffs and
\* pushes in the order of their execution.  The rm of
\* an archive whose push timed out may exit with an error: CommandFailedError.
PushChangedFiles ==
  \E rpOk \in BOOLEAN :
   \E d \in {DiffAll(hostFs, devFs, host_device_tuples, rpOk)} :
   \E installOk \in {ok \in BOOLEAN :
                       (commandsInstalled # None \/ NothingToPush(d.files)) => ok} :
    \E strategy \in {IF NothingToPush(d.files) THEN "none"
                     ELSE ChooseStrategy(hostFs, host_device_tuples, d.files,
                            InstallCommands(commandsInstalled, installOk) = "True")} :
     LET tuples == host_device_tuples
         files == d.files
         list == PushList(strategy, tuples, files)
         again == IF lastOp.op = "PushChangedFiles" /\ lastOp.exc = "none"
                    THEN lastOp.strategy ELSE "no"
     IN \E failAt \in -1..Len(list) :
        \E pushed \in {IF failAt < 0 THEN 0 ELSE failAt} :
        \E after \in {ApplyUnits(hostFs, d.fs, list, pushed)} :
        \E chmodFault \in Faults, isOnline \in IsOnlineOutcomes,
           rmFault \in Faults \cup {"CommandFailedError"} :
         LET \* pushed: the pushes done; after: the device tree they leave
             zipped == strategy = "zip" /\ failAt >= 0
             body == IF failAt = Len(list) THEN "none" ELSE "CommandTimeoutError"
             zip == IF zipped THEN ZippedOutcome(body, isOnline, rmFault) ELSE NoZip
             chmod == zipped /\ zip.exc = "none"
             exc == IF zipped /\ zip.exc # "none" THEN zip.exc
                    ELSE IF failAt = Len(list) THEN chmodFault
                    ELSE "CommandTimeoutError"
             ext == IF zipped THEN GetExternalStoragePathImpl(cache, devExt, "none")
                    ELSE Served(cache, EmptyStr)
             su == IF zipped /\ failAt >= 1 THEN NeedsSUImpl(ext.cache, devSu, "none")
                   ELSE Served(ext.cache, FALSE)
         IN /\ (commandsInstalled # None \/ NothingToPush(files) \/ failAt < 0)
                 => installOk
            /\ ~chmod => chmodFault = "none"
            /\ ~zipped => (isOnline = "True" /\ rmFault = "none")
            /\ (zipped /\ ~RemovesArchive(isOnline)) => rmFault = "none"
            /\ rmFault = "CommandFailedError" => failAt = 0
            /\ devFs' = after
            /\ commandsInstalled' = IF NothingToPush(files) \/ failAt < 0
                                      THEN commandsInstalled
                                    ELSE InstallCommands(commandsInstalled, installOk)
            /\ cache' = su.cache
            /\ lastOp' = IF failAt < 0
                           THEN PushOp("PushChangedFiles", exc, rpOk, <<>>, "none", <<>>,
                                       again, FALSE, FALSE, NoZip, <<>>, d.log)
                           ELSE PushOp("PushChangedFiles", exc, rpOk, files, strategy,
                                       SubSeq(list, 1, pushed), again,
                                       ~NothingToPush(files), chmod, zip,
                                       IF chmod THEN ChmodArgs(tuples, files) ELSE <<>>,
                                       d.log \o Pushes(SubSeq(list, 1, pushed)))
            /\ UNCHANGED <<sessions, hostFs, host_device_tuples, devProps, devSu, devExt, stale,
                           retd, killVars, devFile>>

UsesLink(u) == Head(u.dev) = Head(DevLink)

HostTrees ==
  {hfs \in [HostFilePaths -> Hashes \cup {None}] : hfs[HostFile] # None}

DeviceTrees ==
  {fs \in [dirs : SUBSET {Head(DevDir)}, files : [DevFilePaths -> Hashes \cup {None}]] :
     fs.dirs = {} => \A p \in DevFilePaths : fs.files[p] = None}

\* Every file of the host tree exists here; the trees with files missing on the
\* host are those of the diff on its own.
InitPush ==
  /\ sessions = NoSessions
  /\ cache = EmptyCache /\ devSu = FALSE
  /\ CacheUnused /\ KillUnused /\ FileUnused
  /\ hostFs \in HostTrees
  /\ \A p \in HostFilePaths : hostFs[p] # None
  /\ devFs \in DeviceTrees
  /\ host_device_tuples \in TupleLists
  /\ (\E i \in DOMAIN host_device_tuples : UsesLink(host_device_tuples[i]))
       => Head(DevDir) \in devFs.dirs
  /\ commandsInstalled = None
  /\ lastOp = NoOp

NextPush == PushChangedFiles

SpecPush == InitPush /\ [][NextPush]_vars

(***************************************************************************)
(* _GetChangedFilesImpl on its own, as Install calls it: the host tree, the *)
(* device tree and the call are drawn at the start.                        *)
(***************************************************************************)
DiffCalls == TupleChoices \cup {Unit(HostFile, DevLink \o <<Names[1]>>)}

GetChangedFiles ==
  /\ lastOp.op = "call _GetChangedFilesImpl"
  /\ lastOp' = [op |-> "_GetChangedFilesImpl",
                host |-> lastOp.host, dev |-> lastOp.dev,
                resolved |-> realpath(devFs, lastOp.dev, lastOp.rpOk) # <<>>,
                units |-> GetChangedFilesImpl(hostFs, devFs, lastOp.host, lastOp.dev,
                                              lastOp.rpOk)]
  /\ UNCHANGED <<sessions, cacheVars, notCacheVars>>

InitDiff ==
  /\ sessions = NoSessions
  /\ cache = EmptyCache /\ devSu = FALSE
  /\ CacheUnused /\ KillUnused /\ FileUnused
  /\ hostFs \in HostTrees
  /\ devFs \in DeviceTrees
  /\ host_device_tuples = <<>>
  /\ commandsInstalled = None
  /\ lastOp \in {[op |-> "call _GetChangedFilesImpl", host |-> c.host, dev |-> c.dev,
                   rpOk |-> ok] : c \in DiffCalls, ok \in BOOLEAN}
  /\ UsesLink(lastOp) => Head(DevDir) \in devFs.dirs

NextDiff == GetChangedFiles

SpecDiff == InitDiff /\ [][NextDiff]_vars

(***************************************************************************)
(* Claims about the changed-file diff and PushChangedFiles.                *)
(***************************************************************************)
\* The host files under host path h, and where the pair (h, d) puts host file p.
HostFilesUnder(h) ==
  {p \in HostFilePaths : hostFs[p] # None /\ Len(p) >= Len(h) /\ SubSeq(p, 1, Len(h)) = h}

Destination(h, d, p) == Resolve(d) \o relpath(p, h)

\* C1: when the device path resolves, _GetChangedFilesImpl returns a unit for a host
\* file if and only if the device has no file with an equal hash at the corresponding
\* path; every unit is for a host file, so files only on the device yield none.
C1_UnitIffNoEqualDeviceFile ==
  (lastOp.op = "_GetChangedFilesImpl" /\ lastOp.resolved)
    => LET units == lastOp.units
           unitHosts == {units[i].host : i \in DOMAIN units}
       IN /\ \A p \in HostFilesUnder(lastOp.host) :
               p \in unitHosts
                 <=> devFs.files[Destination(lastOp.host, lastOp.dev, p)] # hostFs[p]
          /\ unitHosts \subseteq HostFilesUnder(lastOp.host)
          /\ Cardinality(unitHosts) = Len(units)
          /\ \A i \in DOMAIN units :
               Resolve(units[i].dev) = Destination(lastOp.host, lastOp.dev, units[i].host)

C1_Witness ==
  /\ lastOp.op = "_GetChangedFilesImpl" /\ lastOp.resolved
  /\ lastOp.host = HostDir /\ lastOp.dev = DevLink
  /\ hostFs[HostDir \o <<Names[1]>>] = "H1" /\ devFs.files[DevDir \o <<Names[1]>>] = "H1"
  /\ hostFs[HostDir \o <<Names[2]>>] = "H2" /\ devFs.files[DevDir \o <<Names[2]>>] = "H1"
  /\ lastOp.units = <<Unit(HostDir \o <<Names[2]>>, DevDir \o <<Names[2]>>)>>

\* C17 (as amended): when the device path resolves, every unit _GetChangedFilesImpl
\* returns pairs a single host file under host_path with a device path, so a host
\* directory is expanded into units of its files; when the device path does not
\* resolve, the only unit is the pair (host_path, device_path) itself, which is a
\* directory pair when host_path is a directory.
C17_UnitsAreFilesWhenResolved ==
  lastOp.op = "_GetChangedFilesImpl"
    => IF lastOp.resolved
         THEN \A i \in DOMAIN lastOp.units :
                /\ ~isdir(lastOp.units[i].host)
                /\ lastOp.units[i].host \in HostFilesUnder(lastOp.host)
         ELSE lastOp.units = <<Unit(lastOp.host, lastOp.dev)>>

C17_Witness ==
  /\ lastOp.op = "_GetChangedFilesImpl" /\ ~lastOp.resolved
  /\ isdir(lastOp.host) /\ Cardinality(HostFilesUnder(lastOp.host)) = Len(Names)
  /\ Len(lastOp.units) = 1 /\ isdir(lastOp.units[1].host)

\* C17 (as stated): no unit _GetChangedFilesImpl returns is a directory pair, also
\* when the device path does not resolve.
C17_NoUnitIsADirectory ==
  lastOp.op = "_GetChangedFilesImpl"
    => \A i \in DOMAIN lastOp.units : ~isdir(lastOp.units[i].host)

\* No device file is the destination of two host files with different hashes.
NoConflict ==
  \A i \in DOMAIN host_device_tuples, j \in DOMAIN host_device_tuples :
    \A p \in HostFilesUnder(host_device_tuples[i].host),
       q \in HostFilesUnder(host_device_tuples[j].host) :
      Destination(host_device_tuples[i].host, host_device_tuples[i].dev, p)
          = Destination(host_device_tuples[j].host, host_device_tuples[j].dev, q)
        => hostFs[p] = hostFs[q]

PushEstimate ==
  ApproximateDuration(Len(lastOp.units), Len(lastOp.units),
                      SumUsage(hostFs, lastOp.units), FALSE)

DirEstimate ==
  ApproximateDuration(Len(host_device_tuples), DirFileCount(hostFs, host_device_tuples),
                      SumUsage(hostFs, host_device_tuples), FALSE)

ZipEstimate == ApproximateDuration(1, 1, SumUsage(hostFs, lastOp.units), TRUE)

\* C19: a PushChangedFiles with something to push takes the per-directory push when
\* its estimate is below the per-file estimate and (below the zip estimate or the zip
\* tooling is unavailable); otherwise the per-file push when its estimate is below
\* the zip estimate or the zip tooling is unavailable; otherwise zip-then-unzip.
C19_StrategyRule ==
  (lastOp.op = "PushChangedFiles" /\ lastOp.strategy # "none")
    => LET unavailable == commandsInstalled = "False"
       IN /\ commandsInstalled # None
          /\ lastOp.strategy = "dir"
               <=> (DirEstimate < PushEstimate /\ (DirEstimate < ZipEstimate \/ unavailable))
          /\ lastOp.strategy = "file"
               <=> (/\ ~(DirEstimate < PushEstimate
                          /\ (DirEstimate < ZipEstimate \/ unavailable))
                    /\ (PushEstimate < ZipEstimate \/ unavailable))
          /\ lastOp.strategy = "zip"
               <=> (/\ ~(DirEstimate < PushEstimate
                          /\ (DirEstimate < ZipEstimate \/ unavailable))
                    /\ ~(PushEstimate < ZipEstimate \/ unavailable))

C19_Witness ==
  /\ lastOp.op = "PushChangedFiles" /\ lastOp.strategy = "dir" /\ lastOp.exc = "none"
  /\ commandsInstalled = "False"
  /\ DirEstimate < PushEstimate /\ ZipEstimate < DirEstimate

\* C20: a PushChangedFiles whose diff gives no unit returns without a push, without
\* calling _InstallCommands and without the chmod: the device's files, the zip
\* tooling's state and the session cache are as before the call.
C20_EmptyDiffDoesNothingMore ==
  [][(lastOp'.op = "PushChangedFiles" /\ lastOp'.exc = "none" /\ lastOp'.units = <<>>)
       => /\ lastOp'.sent = <<>> /\ lastOp'.strategy = "none"
          /\ ~lastOp'.installed /\ ~lastOp'.chmod
          /\ commandsInstalled' = commandsInstalled
          /\ devFs'.files = devFs.files
          /\ cache' = cache]_vars

C20_Witness ==
  /\ lastOp.op = "PushChangedFiles" /\ lastOp.exc = "none" /\ lastOp.units = <<>>
  /\ lastOp.again = "no" /\ commandsInstalled = None
  /\ Len(host_device_tuples) = 2 /\ lastOp.resolved


(***************************************************************************)
(* Claim C21: once the zipped push has reached its try statement, whether  *)
(* the push of the archive and the unzip succeeded or failed, the rm of the *)
(* remote archive is issued if and only if IsOnline gives True; when it     *)
(* gives False no rm is issued and the operation ends with what the push   *)
(* and the unzip ended with, the cleanup adding no failure of its own.     *)
(***************************************************************************)
C21_ArchiveRemovedIffOnline ==
  (lastOp.op = "PushChangedFiles" /\ lastOp.zip.tried) =>
    /\ lastOp.zip.rm <=> lastOp.zip.online = "True"
    /\ lastOp.zip.online = "False" =>
         (~lastOp.zip.rm /\ lastOp.zip.exc = lastOp.zip.body
          /\ (lastOp.zip.body # "none" => lastOp.exc = lastOp.zip.body))

\* The unzip timed out, the device is offline: no rm, the timeout is what is raised.
C21_Witness ==
  /\ lastOp.op = "PushChangedFiles" /\ lastOp.zip.tried
  /\ lastOp.zip.body = "CommandTimeoutError" /\ lastOp.zip.online = "False"
  /\ ~lastOp.zip.rm /\ lastOp.exc = "CommandTimeoutError"
  /\ Len(lastOp.sent) >= 1


(***************************************************************************)
(* WaitUntilFullyBooted(wifi) on its own, one step per poll of a probe.    *)
(* timeout_retry.WaitFor calls the probe until it returns a true value;    *)
(* an exception of the probe leaves WaitFor and WaitUntilFullyBooted; the  *)
(* decorator's timeout ends the call at any point.                         *)
(* lastOp.at: the wait the call is in; lastOp.polls: the probes that have  *)
(* answered 'not yet'; lastOp.probe: the probe that ran last;              *)
(* lastOp.cmdFailed: ghost, a remote command of that probe failed, or gave *)
(* no value where one is required.                                         *)
(***************************************************************************)
MaxPolls == 3

\* What a remote command of a probe ends with: exit 0, or a failure of the command.
ProbeFaults == {"none", "AdbCommandFailedError"}

PackagePath == Text("package:/system/framework/framework-res.apk", 43)

\* What 'pm path android' prints: nothing, the path, something else.
PmOutputs == {EmptyStr, <<PackagePath, LF>>, <<Text("Error: no package manager", 25), LF>>}

WifiEnabled == Text("Wi-Fi is enabled", 16)

WifiOutputs == {<<WifiEnabled, LF>>, <<Text("Wi-Fi is disabled", 17), LF>>}

\* seen: ghost, the waits that have ended with their condition true, in order.
BootOp(at, polls, exc, wifi, probe, cmdFailed, seen) ==
  [op |-> "WaitUntilFullyBooted", at |-> at, polls |-> polls, exc |-> exc, wifi |-> wifi,
   probe |-> probe, cmdFailed |-> cmdFailed, seen |-> seen]

\* The call is in wait at and can poll once more.
Polling(at) ==
  /\ lastOp.op = "WaitUntilFullyBooted" /\ lastOp.at = at
  /\ lastOp.exc = "none" /\ lastOp.polls < MaxPolls

\* One call of a probe by WaitFor: raised, the exception that left the probe, or
\* "none"; ready, what the probe returned; next, the wait that follows this one.
PolledEndingTheWait(probe, raised, ready, cmdFailed, next) ==
  IF raised # "none"
    THEN BootOp(lastOp.at, lastOp.polls, raised, lastOp.wifi, probe, cmdFailed,
                lastOp.seen)
  ELSE BootOp(next, lastOp.polls, "none", lastOp.wifi, probe, cmdFailed,
              IF ready THEN Append(lastOp.seen, probe) ELSE lastOp.seen)

Polled(probe, raised, ready, cmdFailed, next) ==
  IF raised # "none"
    THEN BootOp(lastOp.at, lastOp.polls, raised, lastOp.wifi, probe, cmdFailed,
                lastOp.seen)
  ELSE IF ready
    THEN BootOp(next, lastOp.polls, "none", lastOp.wifi, probe, cmdFailed,
                Append(lastOp.seen, probe))
  ELSE BootOp(lastOp.at, lastOp.polls + 1, "none", lastOp.wifi, probe, cmdFailed,
              lastOp.seen)

\* self.adb.WaitForDevice()
WaitForDevice ==
  /\ Polling(StWaitForDevice)
  /\ lastOp' = BootOp(StSdCard, lastOp.polls, "none", lastOp.wifi, "none", FALSE,
                      Append(lastOp.seen, "WaitForDevice"))
  /\ UNCHANGED <<sessions, cacheVars, notCacheVars>>

\* sd_card_ready: 'test -d' on GetExternalStoragePath(); except AdbCommandFailedError.
sd_card_ready ==
  /\ Polling(StSdCard)
  /\ \E echoFault \in ProbeFaults, testFault \in ProbeFaults :
       LET g == GetExternalStoragePathImpl(cache, devExt, echoFault)
           t == IF g.exc = "none"
                  THEN RunShellCommand(ShellPrint(EmptyStr, testFault), TRUE, FALSE)
                  ELSE [exc |-> g.exc, val |-> g.val]
           caught == t.exc = "AdbCommandFailedError"
       IN /\ g.exc # "none" => testFault = "none"
          /\ cache' = g.cache
          /\ lastOp' = Polled("sd_card_ready", IF caught THEN "none" ELSE t.exc,
                              t.exc = "none", t.exc # "none", StPm)
  /\ UNCHANGED <<sessions, devProps, devSu, devExt, stale, retd, notCacheVars>>

\* pm_ready: GetApplicationPath('android'); except CommandFailedError, the class
\* AdbCommandFailedError derives from.
pm_ready ==
  /\ Polling(StPm)
  /\ \E sdkFault \in ProbeFaults, pmFault \in ProbeFaults, out \in PmOutputs :
       LET sdk == GetPropImpl(cache, devProps, SdkProp, TRUE, sdkFault)
           pm == IF sdk.exc # "none" THEN [exc |-> sdk.exc, val |-> sdk.val]
                 ELSE RunShellCommand(IF pmFault = "none" THEN ShellOk(out)
                                      ELSE ShellRaise(pmFault, EmptyStr), TRUE, TRUE)
           path == IF pm.exc # "none" THEN pm
                   ELSE IF pm.val = EmptyStr THEN [exc |-> "none", val |-> None]
                   ELSE IF pm.val # <<PackagePath>>
                     THEN [exc |-> "CommandFailedError", val |-> pm.val]
                   ELSE pm
           caught == path.exc \in {"CommandFailedError", "AdbCommandFailedError"}
       IN /\ sdk.exc # "none" => (pmFault = "none" /\ out = EmptyStr)
          /\ pmFault # "none" => out = EmptyStr
          /\ cache' = sdk.cache
          /\ lastOp' = Polled("pm_ready", IF caught THEN "none" ELSE path.exc,
                              path.exc = "none" /\ path.val # None, path.exc # "none",
                              StBoot)
  /\ UNCHANGED <<sessions, devProps, devSu, devExt, stale, retd, notCacheVars>>

\* boot_completed: self.GetProp('sys.boot_completed') == '1', with no handler.
\* boot: the value the booting device holds by now.
boot_completed ==
  /\ Polling(StBoot)
  /\ \E fault \in ProbeFaults, boot \in PropValues("sys.boot_completed") :
       LET props == [devProps EXCEPT !["sys.boot_completed"] = boot]
           g == GetPropImpl(cache, props, "sys.boot_completed", FALSE, fault)
       IN /\ devProps["sys.boot_completed"] = BootDone => boot = BootDone
          /\ devProps' = props
          /\ cache' = g.cache
          /\ lastOp' = Polled("boot_completed", g.exc,
                              g.exc = "none" /\ g.val = BootDone, g.exc # "none",
                              IF lastOp.wifi THEN StWifi ELSE StDone)
  /\ UNCHANGED <<sessions, devSu, devExt, stale, retd, notCacheVars>>

\* wifi_enabled: 'Wi-Fi is enabled' in the lines of 'dumpsys wifi', check_return=False.
wifi_enabled ==
  /\ Polling(StWifi)
  /\ \E fault \in ProbeFaults, out \in WifiOutputs :
       LET r == RunShellCommand(IF fault = "none" THEN ShellOk(out)
                                ELSE ShellRaise(fault, out), FALSE, FALSE)
       IN lastOp' = Polled("wifi_enabled", r.exc,
                           r.exc = "none" /\ \E i \in DOMAIN r.val : r.val[i] = <<WifiEnabled>>,
                           fault # "none", StDone)
  /\ UNCHANGED <<sessions, cacheVars, notCacheVars>>

\* The timeout of WithTimeoutAndRetriesFromInstance runs out.
BootTimeout ==
  /\ lastOp.op = "WaitUntilFullyBooted" /\ lastOp.at < StDone /\ lastOp.exc = "none"
  /\ lastOp' = BootOp(lastOp.at, lastOp.polls, "CommandTimeoutError", lastOp.wifi,
                      "none", FALSE, lastOp.seen)
  /\ UNCHANGED <<sessions, cacheVars, notCacheVars>>

InitBoot ==
  /\ sessions = NoSessions
  /\ KillUnused /\ FileUnused /\ PushUnused
  /\ cache \in {EmptyCache, Put(EmptyCache, ExtKey, Text("/sdcard", 7))}
  /\ devProps \in {[n \in PropNames \cup {SdkProp} |-> IF n = SdkProp THEN SdkValue ELSE p[n]] :
                     p \in DevPropStates}
  /\ devSu \in BOOLEAN
  /\ devExt \in ExtValues
  /\ stale = {}
  /\ retd = {}
  /\ \E wifi \in BOOLEAN : lastOp = BootOp(StWaitForDevice, 0, "none", wifi, "none", FALSE, <<>>)

NextBoot ==
  \/ WaitForDevice
  \/ sd_card_ready
  \/ pm_ready
  \/ boot_completed
  \/ wifi_enabled
  \/ BootTimeout

SpecBoot == InitBoot /\ [][NextBoot]_vars

(***************************************************************************)
(* Claim C22: when a remote command of the probe boot_completed or of the  *)
(* probe sd_card_ready fails, the probe reports 'not yet' and              *)
(* WaitUntilFullyBooted does not fail: it fails only when its timeout runs *)
(* out.                                                                    *)
(***************************************************************************)
C22_FailingProbeNeverFailsTheWait ==
  (/\ lastOp.op = "WaitUntilFullyBooted"
   /\ lastOp.probe \in {"boot_completed", "sd_card_ready"}
   /\ lastOp.cmdFailed)
    => lastOp.exc = "none"


(***************************************************************************)
(* The three operations that create a scoped temporary file on the device, *)
(* in one session: RunShellCommand (the script of a long command),         *)
(* ReadFile and WriteFile (the staging file of a root transfer, and the    *)
(* script of a long echo).                                                 *)
(***************************************************************************)
\* The calls of RunShellCommand of this session: no output, every exit, on both
\* sides of the length limit.
TempCalls == {c \in ShellCalls : c.output = <<>>}

InitTemp ==
  /\ sessions = NoSessions
  /\ cache = EmptyCache /\ devSu \in BOOLEAN
  /\ CacheUnused /\ KillUnused /\ PushUnused
  /\ devFile \in {NoFile} \cup {File(c) : c \in Contents}
  /\ lastOp \in {NoOp} \cup TempCalls

NextTemp == RunShell \/ WriteFile \/ ReadFile

SpecTemp == InitTemp /\ [][NextTemp]_vars

SessionIds == {"A", "B"}

\* self._cache = {} and self._commands_installed = None, for a device.
NewSession(props, su, ext) ==
  [cache |-> EmptyCache, commands_installed |-> None, props |-> props, su |-> su,
   ext |-> ext, alone |-> [cache |-> EmptyCache, commands_installed |-> None]]

\* The sessions once session s has bound or filled its cache: the dictionary is the
\* instance's own (WithCacheOfClass: one dictionary for the class).
WithCacheOfClass(ss, s, c) == [t \in DOMAIN ss |-> [ss[t] EXCEPT !.cache = c]]

WithCache(ss, s, c) == [ss EXCEPT ![s].cache = c]

\* Session s has run an operation: r, what it gave; a, what it gives alone.
SessionCalled(s, op, r, a, flag, flagAlone) ==
  /\ sessions' = [WithCache(sessions, s, r.cache) EXCEPT
                    ![s].commands_installed = flag,
                    ![s].alone = [cache |-> a.cache, commands_installed |-> flagAlone]]
  /\ lastOp' = [op |-> op, session |-> s, exc |-> r.exc, val |-> r.val,
                excAlone |-> a.exc, valAlone |-> a.val]
  /\ UNCHANGED <<cacheVars, notCacheVars>>

SessionGetProp(s) ==
  \E useCache \in BOOLEAN, fault \in Faults :
    LET me == sessions[s] IN
    SessionCalled(s, "GetProp",
                  GetPropImpl(me.cache, me.props, "ro.build.type", useCache, fault),
                  GetPropImpl(me.alone.cache, me.props, "ro.build.type", useCache, fault),
                  me.commands_installed, me.alone.commands_installed)

SessionNeedsSU(s) ==
  \E fault \in Faults :
    LET me == sessions[s] IN
    SessionCalled(s, "NeedsSU", NeedsSUImpl(me.cache, me.su, fault),
                  NeedsSUImpl(me.alone.cache, me.su, fault),
                  me.commands_installed, me.alone.commands_installed)

SessionGetExternalStoragePath(s) ==
  \E fault \in Faults :
    LET me == sessions[s] IN
    SessionCalled(s, "GetExternalStoragePath",
                  GetExternalStoragePathImpl(me.cache, me.ext, fault),
                  GetExternalStoragePathImpl(me.alone.cache, me.ext, fault),
                  me.commands_installed, me.alone.commands_installed)

\* Reboot(block=False): adb.Reboot(), self._cache = {}, the wait for the device to
\* go offline.
SessionReboot(s) ==
  \E fault \in Faults :
    LET me == sessions[s] IN
    SessionCalled(s, "Reboot",
                  [cache |-> RebootPurge(me.cache), exc |-> fault, val |-> EmptyStr],
                  [cache |-> RebootPurge(me.alone.cache), exc |-> fault, val |-> EmptyStr],
                  me.commands_installed, me.alone.commands_installed)

\* _InstallCommands(): val, the flag it leaves.
SessionInstallCommands(s) ==
  \E installOk \in BOOLEAN :
    LET me == sessions[s]
        flag == InstallCommands(me.commands_installed, installOk)
        flagAlone == InstallCommands(me.alone.commands_installed, installOk)
    IN /\ me.commands_installed # None => installOk
       /\ SessionCalled(s, "_InstallCommands",
                        [cache |-> me.cache, exc |-> "none", val |-> flag],
                        [cache |-> me.alone.cache, exc |-> "none", val |-> flagAlone],
                        flag, flagAlone)

\* Two devices that differ in everything a session caches.
InitTwo ==
  /\ cache = EmptyCache /\ devSu = FALSE
  /\ CacheUnused /\ KillUnused /\ FileUnused /\ PushUnused
  /\ sessions = [s \in SessionIds |->
                   IF s = "A"
                     THEN NewSession([devProps EXCEPT !["ro.build.type"] = UserBuild],
                                     TRUE, Text("/sdcard", 7))
                     ELSE NewSession([devProps EXCEPT
                                        !["ro.build.type"] = Text("userdebug", 9)],
                                     FALSE, Text("/mnt/sdcard", 11))]
  /\ lastOp = NoOp

NextTwo ==
  \E s \in SessionIds :
    \/ SessionGetProp(s)
    \/ SessionNeedsSU(s)
    \/ SessionGetExternalStoragePath(s)
    \/ SessionReboot(s)
    \/ SessionInstallCommands(s)

SpecTwo == InitTwo /\ [][NextTwo]_vars

C25_CheckRereadsTheDevice ==
  lastOp.op = "SetProp" =>
    /\ (lastOp.flag /\ (lastOp.q \/ lastOp.exc = "none")) =>
         /\ lastOp.q
         /\ lastOp.exc # "CommandTimeoutError" =>
              /\ lastOp.read = devProps[lastOp.name]
              /\ lastOp.exc = "CommandFailedError" <=> lastOp.read # lastOp.written
    /\ ~lastOp.flag => (~lastOp.q /\ lastOp.exc # "CommandFailedError")

\* The property had a cache entry and the device took the new value: the re-read
\* returned the new value, which is now the entry, and the checked SetProp returned.
C25_Witness ==
  /\ lastOp.op = "SetProp" /\ lastOp.flag /\ lastOp.q /\ lastOp.exc = "none"
  /\ lastOp.read = lastOp.written
  /\ PropKey(lastOp.name) \in DOMAIN cache
  /\ cache[PropKey(lastOp.name)] = lastOp.read
  /\ lastOp.name = "sys.boot_completed"


(***************************************************************************)
(* Claim C26: EnableRoot on a device running a user build does not call    *)
(* adb.Root(), fails with CommandFailedError (with CommandTimeoutError     *)
(* when the query of the build type timed out), and leaves the needs_su    *)
(* entry of the cache as it was: absent, or present with the same value.   *)
(***************************************************************************)
C26_UserBuildRefusedBeforeRoot ==
  [][(lastOp'.op = "EnableRoot" /\ devProps["ro.build.type"] = UserBuild)
       => /\ ~lastOp'.q
          /\ lastOp'.exc \in {"CommandFailedError", "CommandTimeoutError"}
          /\ lastOp'.exc = "CommandTimeoutError" =>
               PropKey("ro.build.type") \notin DOMAIN cache
          /\ NeedsSuKey \in DOMAIN cache' <=> NeedsSuKey \in DOMAIN cache
          /\ NeedsSuKey \in DOMAIN cache => cache'[NeedsSuKey] = cache[NeedsSuKey]
          /\ devSu' = devSu]_vars

\* EnableRoot was refused on a user build while needs_su was cached: it is still.
C26_Witness ==
  /\ lastOp.op = "EnableRoot" /\ lastOp.exc = "CommandFailedError" /\ ~lastOp.q
  /\ lastOp.flag /\ NeedsSuKey \in DOMAIN cache
  /\ devProps["ro.build.type"] = UserBuild


(***************************************************************************)
(* Install(apk_path, reinstall).  The host APK is the file F; the package  *)
(* is installed when its APK is on the device, at AppPath.                 *)
(***************************************************************************)
\* GetApplicationPath(package_name) of an installed package.
AppPath == DevDir \o <<Names[1]>>

\* if should_install and not reinstall: self.adb.Uninstall(package_name)
UninstallsWheneverInstalling(should_install, reinstall) == should_install

Uninstalls(should_install, reinstall) == should_install /\ ~reinstall

\* failAt: the call that raises, "none" if none does, and raised: what it raises.
\* lastOp.present: the package
\* was installed; lastOp.same: ghost, the device APK had the hash of the host APK;
\* lastOp.resolved: realpath gave the device path; lastOp.uninstalled and
\* lastOp.installed: adb.Uninstall and adb.Install were called; lastOp.failed: failAt.
Install ==
  \E reinstall \in BOOLEAN, rpOk \in BOOLEAN,
     failAt \in {"none", "GetApplicationPath", "Uninstall", "Install"},
     raised \in {"none", "CommandFailedError", "CommandTimeoutError"} :
    LET looked == failAt # "GetApplicationPath"
        present == looked /\ devFs.files[AppPath] # None
        changed == GetChangedFilesImpl(hostFs, devFs, HostFile, AppPath, rpOk)
        should_install == IF present THEN changed # <<>> ELSE TRUE
        uninstalled == present /\ Uninstalls(should_install, reinstall)
        installed == looked /\ should_install /\ failAt # "Uninstall"
        removed == [devFs EXCEPT !.files[AppPath] = None]
        fs1 == IF uninstalled /\ failAt # "Uninstall" THEN removed ELSE devFs
    IN /\ failAt = "none" <=> raised = "none"
       /\ failAt = "Uninstall" => uninstalled
       /\ failAt = "Install" => installed
       /\ ~present => rpOk
       /\ devFs' = IF installed /\ failAt = "none"
                     THEN [dirs |-> fs1.dirs \cup {Head(DevDir)},
                           files |-> [fs1.files EXCEPT ![AppPath] = hostFs[HostFile]]]
                     ELSE fs1
       /\ lastOp' = [op |-> "Install", reinstall |-> reinstall, looked |-> looked,
                     present |-> present,
                     same |-> present /\ devFs.files[AppPath] = hostFs[HostFile],
                     resolved |-> present /\ realpath(devFs, AppPath, rpOk) # <<>>,
                     uninstalled |-> uninstalled, installed |-> installed,
                     failed |-> failAt,
                     exc |-> raised]
       /\ UNCHANGED <<sessions, cacheVars, killVars, devFile, hostFs, host_device_tuples,
                      commandsInstalled>>

\* A new build of the APK on the host.
BuildApk ==
  /\ \E h \in Hashes \ {hostFs[HostFile]} : hostFs' = [hostFs EXCEPT ![HostFile] = h]
  /\ lastOp' = [op |-> "BuildApk"]
  /\ UNCHANGED <<sessions, cacheVars, killVars, devFile, devFs, host_device_tuples,
                 commandsInstalled>>

InitInstall ==
  /\ sessions = NoSessions
  /\ cache = EmptyCache /\ devSu = FALSE
  /\ CacheUnused /\ KillUnused /\ FileUnused
  /\ hostFs \in {hfs \in HostTrees : \A p \in HostFilePaths \ {HostFile} : hfs[p] = None}
  /\ devFs \in {fs \in DeviceTrees : \A p \in DevFilePaths \ {AppPath} : fs.files[p] = None}
  /\ host_device_tuples = <<>>
  /\ commandsInstalled = None
  /\ lastOp = NoOp

NextInstall == Install \/ BuildApk

SpecInstall == InitInstall /\ [][NextInstall]_vars

C28_EntryOnlyFromCachedRead ==
  [][/\ \A n \in PropNames :
          LET key == PropKey(n) IN
          /\ (lastOp'.op = "GetProp" /\ lastOp'.name = n /\ ~lastOp'.flag)
               => /\ lastOp'.q
                  /\ lastOp'.exc = "none" =>
                       /\ key \in DOMAIN cache' <=> key \in DOMAIN cache
                       /\ key \in DOMAIN cache' => cache'[key] = lastOp'.val
          /\ (lastOp'.op = "GetProp" /\ lastOp'.name = n /\ lastOp'.flag
                /\ lastOp'.q /\ lastOp'.exc = "none")
               => (key \in DOMAIN cache' /\ cache'[key] = lastOp'.val)
          /\ (key \in DOMAIN cache' /\ key \notin DOMAIN cache)
               => \/ lastOp'.op = "GetProp" /\ lastOp'.name = n /\ lastOp'.flag
                  \/ lastOp'.op = "EnableRoot" /\ n = "ro.build.type"]_vars

\* sys.boot_completed was read with cache=False while it had no entry: it was
\* queried and has none now.
C28_Witness ==
  /\ lastOp.op = "GetProp" /\ lastOp.name = "sys.boot_completed" /\ ~lastOp.flag
  /\ lastOp.q /\ lastOp.exc = "none"
  /\ PropKey("sys.boot_completed") \notin DOMAIN cache
  /\ PropKey("ro.build.type") \in DOMAIN cache


(***************************************************************************)
(* Claim C29: in a session whose probe of the zip tooling has failed       *)
(* (_commands_installed is False), PushChangedFiles never takes the        *)
(* zip-then-unzip strategy, whatever the three estimates are: no archive   *)
(* is pushed, no unzip and no chmod is run.                                *)
(***************************************************************************)
C29_NoZipWithoutTooling ==
  (lastOp.op = "PushChangedFiles" /\ commandsInstalled = "False")
    => /\ lastOp.strategy \in {"none", "dir", "file"}
       /\ ~lastOp.zip.tried /\ ~lastOp.zip.rm
       /\ ~lastOp.chmod

\* The zip estimate was the lowest of the three and the files were pushed one by one.
C29_Witness ==
  /\ lastOp.op = "PushChangedFiles" /\ lastOp.strategy = "file" /\ lastOp.exc = "none"
  /\ commandsInstalled = "False"
  /\ ZipEstimate < PushEstimate /\ ZipEstimate < DirEstimate
  /\ Len(lastOp.sent) >= 2

(***************************************************************************)
(* PushChangedFiles and Reboot in one session: one pair, the host          *)
(* directory to the device directory.                                      *)
(***************************************************************************)
InitPushReboot ==
  /\ InitPush
  /\ host_device_tuples = <<Unit(HostDir, DevDir)>>
  /\ \A p \in HostFilePaths : hostFs[p] = "H1"
  /\ \A p \in DevFilePaths : devFs.files[p] \in {None, "H1"}

NextPushReboot == PushChangedFiles \/ Reboot

SpecPushReboot == InitPushReboot /\ [][NextPushReboot]_vars

(***************************************************************************)
(* Claim C30: the first PushChangedFiles of a session that calls           *)
(* _InstallCommands records the outcome of the probe, True or False, in    *)
(* _commands_installed; from then on no step of the session changes it:    *)
(* no later PushChangedFiles probes again, and Reboot leaves it alone.     *)
(***************************************************************************)
C30_ToolingProbedOnce ==
  [][/\ commandsInstalled # None => commandsInstalled' = commandsInstalled
     /\ (lastOp'.op = "PushChangedFiles" /\ lastOp'.installed)
          => commandsInstalled' \in {"True", "False"}
     /\ lastOp'.op = "Reboot" => commandsInstalled' = commandsInstalled]_vars

\* In a session that has rebooted and whose probe failed, a PushChangedFiles that
\* pushed files was followed by another that called _InstallCommands: the flag is
\* still False.
C30_Witness ==
  /\ lastOp.op = "PushChangedFiles" /\ lastOp.installed /\ lastOp.strategy = "file"
  /\ lastOp.again = "file"
  /\ commandsInstalled = "False"
  /\ stale = {} /\ ExtKey \notin DOMAIN cache
  /\ devProps["sys.boot_completed"] = Text("0", 1)

\* ---------------------------------------------------------------------------
\* C31: PushChangedFiles runs the chmod exactly when the zipped push was chosen
\* and returned without an exception, having sent every changed file; the chmod
\* then names the device path of every pair of host_device_tuples, in their
\* order; after a push of the files or of the pairs there is no chmod.
C31_ChmodIffZipCompleted ==
  lastOp.op = "PushChangedFiles" =>
    /\ lastOp.chmod <=> /\ lastOp.strategy = "zip"
                        /\ lastOp.zip.tried /\ lastOp.zip.exc = "none"
                        /\ lastOp.sent = lastOp.units
    /\ lastOp.chmod =>
         /\ Len(lastOp.chmodArgs) = Len(host_device_tuples)
         /\ \A i \in DOMAIN host_device_tuples :
              lastOp.chmodArgs[i] = host_device_tuples[i].dev
    /\ lastOp.strategy \in {"file", "dir"} => ~lastOp.chmod

\* A zipped push of two pairs ran the chmod, and the pair of the single host file
\* had nothing to send.
C31_Witness ==
  /\ lastOp.op = "PushChangedFiles" /\ lastOp.chmod
  /\ Len(host_device_tuples) = 2
  /\ \E i \in DOMAIN host_device_tuples : host_device_tuples[i].host = HostFile
  /\ \A k \in DOMAIN lastOp.units : lastOp.units[k].host # HostFile

\* ---------------------------------------------------------------------------
\* The position of the i-th diff in a log of events.
DiffPosition(log, i) ==
  CHOOSE p \in DOMAIN log :
    /\ log[p].e = "diff"
    /\ Cardinality({q \in 1..p : log[q].e = "diff"}) = i

\* C32: in a PushChangedFiles, the diff of the i-th pair is the i-th diff; for a
\* pair whose host path is a directory the step right before it is the mkdir -p of
\* that pair's device path, for a pair whose host path is a file the step before
\* it is no mkdir; and every mkdir precedes every push.
C32_MkdirBeforeDiffOfDirectoryPairs ==
  lastOp.op = "PushChangedFiles" =>
    LET log == lastOp.log
        tuples == host_device_tuples
    IN /\ Cardinality({p \in DOMAIN log : log[p].e = "diff"}) = Len(tuples)
       /\ \A i \in DOMAIN tuples :
            LET p == DiffPosition(log, i) IN
            /\ log[p].host = tuples[i].host /\ log[p].dev = tuples[i].dev
            /\ isdir(tuples[i].host) =>
                 /\ p > 1
                 /\ log[p - 1] = Event("mkdir", tuples[i].host, tuples[i].dev)
            /\ ~isdir(tuples[i].host) => (p = 1 \/ log[p - 1].e # "mkdir")
       /\ \A p, q \in DOMAIN log :
            (log[p].e = "mkdir" /\ log[q].e = "push") => p < q

\* A PushChangedFiles of a file pair and then a directory pair pushed something:
\* the only mkdir is the second pair's, after the diff of the first.
C32_Witness ==
  /\ lastOp.op = "PushChangedFiles" /\ lastOp.sent # <<>>
  /\ Len(host_device_tuples) = 2
  /\ ~isdir(host_device_tuples[1].host) /\ isdir(host_device_tuples[2].host)
  /\ lastOp.log[1].e = "diff" /\ lastOp.log[2].e = "mkdir"

\* ---------------------------------------------------------------------------
\* C33 (as amended): after a PushChangedFiles that returned, every host file under
\* every pair has, at its destination on the device, a file of the same hash,
\* whichever strategy ran, provided no device file is the destination of two host
\* files with different hashes.
C33_HostFilesAreOnDevice ==
  (lastOp.op = "PushChangedFiles" /\ lastOp.exc = "none" /\ NoConflict) =>
    \A i \in DOMAIN host_device_tuples :
      \A p \in HostFilesUnder(host_device_tuples[i].host) :
        devFs.files[Destination(host_device_tuples[i].host,
                                host_device_tuples[i].dev, p)] = hostFs[p]

\* A zipped push of two pairs without conflict returned, having sent files.
C33_Witness ==
  /\ lastOp.op = "PushChangedFiles" /\ lastOp.exc = "none" /\ NoConflict
  /\ lastOp.strategy = "zip" /\ lastOp.sent # <<>>
  /\ Len(host_device_tuples) = 2
  /\ host_device_tuples[1].host # host_device_tuples[2].host

\* C33 (as stated): after a PushChangedFiles that returned, every host file under
\* every pair has, at its destination on the device, a file of the same hash.
C33_EveryHostFileIsOnDevice ==
  (lastOp.op = "PushChangedFiles" /\ lastOp.exc = "none") =>
    \A i \in DOMAIN host_device_tuples :
      \A p \in HostFilesUnder(host_device_tuples[i].host) :
        devFs.files[Destination(host_device_tuples[i].host,
                                host_device_tuples[i].dev, p)] = hostFs[p]

\* ---------------------------------------------------------------------------
\* C34: when _commands_installed is True, the strategy PushChangedFiles runs has
\* an estimate that is not above the estimate of either other strategy.
C34_ChosenStrategyIsCheapest ==
  (/\ lastOp.op = "PushChangedFiles" /\ lastOp.strategy # "none"
   /\ commandsInstalled = "True") =>
    LET t == Durations(hostFs, host_device_tuples, lastOp.units)
    IN \A other \in {"file", "dir", "zip"} : t[lastOp.strategy] <= t[other]

\* With the commands installed each strategy is chosen in some call; here the zip,
\* with an estimate below the two others.
C34_Witness ==
  /\ lastOp.op = "PushChangedFiles" /\ lastOp.strategy = "zip"
  /\ commandsInstalled = "True"
  /\ LET t == Durations(hostFs, host_device_tuples, lastOp.units)
     IN t.zip < t.file /\ t.zip < t.dir

\* ---------------------------------------------------------------------------
\* The position of a piece in a command that holds it.
Pos(cmd, piece) == CHOOSE i \in DOMAIN cmd : cmd[i] = piece

\* C35: a command RunShellCommand has built holds the assignments of env right
\* before the command given, the 'cd <cwd> &&' before these, and the 'su -c sh -c'
\* first, with all the rest as its quoted argument; the su layer is there exactly
\* when as_root is set and NeedsSU gave True; a call without as_root runs no probe
\* of NeedsSU.
C35_RootEnclosesCwdEnclosesEnv ==
  lastOp.op = "RunShellCommand" =>
    /\ ~lastOp.as_root => ~lastOp.probed
    /\ lastOp.route # "none" =>
         LET cmd == lastOp.cmd
             has(piece) == \E i \in DOMAIN cmd : cmd[i] = piece
         IN /\ has("cmd")
            /\ has("env") <=> lastOp.env # {}
            /\ has("cd ") <=> lastOp.cwd
            /\ has("su -c sh -c ") <=>
                 (/\ lastOp.as_root
                  /\ NeedsSuKey \in DOMAIN cache /\ cache[NeedsSuKey] = TRUE)
            /\ has("env") => Pos(cmd, "env") = Pos(cmd, "cmd") - 2
            /\ has("cd ") =>
                 Pos(cmd, "cd ") = Pos(cmd, "cmd") - (IF has("env") THEN 5 ELSE 3)
            /\ has("su -c sh -c ") =>
                 /\ Pos(cmd, "su -c sh -c ") = 1
                 /\ cmd[2] = "SingleQuote(" /\ cmd[Len(cmd)] = ")"
                 /\ Pos(cmd, "cmd") = Len(cmd) - 1
            /\ ~has("su -c sh -c ") => Pos(cmd, "cmd") = Len(cmd)

\* A call with env, cwd and as_root on a device that needs su built its command
\* with the three layers.
C35_Witness ==
  /\ lastOp.op = "RunShellCommand" /\ lastOp.route # "none"
  /\ lastOp.env # {} /\ lastOp.cwd /\ lastOp.as_root /\ lastOp.probed
  /\ Len(lastOp.cmd) = 9 /\ lastOp.cmd[1] = "su -c sh -c "

\* ---------------------------------------------------------------------------
\* C36: a NeedsSU that finds no 'needs_su' in the cache runs its probe; when the
\* probe succeeds (the device needs su) it stores and returns True, when the probe
\* exits with an error it stores and returns False, and when the probe ends with a
\* timeout or an unreachable device the exception leaves NeedsSU and the cache is
\* as before, without 'needs_su', so that the next NeedsSU probes again.
C36_ProbeOutcomeStoredUnlessDeviceFails ==
  [][lastOp'.op = "NeedsSU" =>
       /\ lastOp'.q <=> NeedsSuKey \notin DOMAIN cache
       /\ (lastOp'.q /\ lastOp'.exc = "none") =>
            /\ lastOp'.val = devSu
            /\ cache' = Put(cache, NeedsSuKey, devSu)
       /\ (lastOp'.q /\ lastOp'.exc # "none") =>
            /\ lastOp'.exc \in {"CommandTimeoutError", "DeviceUnreachableError"}
            /\ cache' = cache]_vars

\* A NeedsSU whose probe timed out left the cache without 'needs_su'.
C36_Witness ==
  /\ lastOp.op = "NeedsSU" /\ lastOp.q /\ lastOp.exc = "CommandTimeoutError"
  /\ NeedsSuKey \notin DOMAIN cache

(***************************************************************************)
(* KillAll(blocking=True) on a device that stays reachable: no remote call *)
(* and no decorator times out, a process that received the signal exits,   *)
(* the loop keeps polling, and no process starts.                          *)
(***************************************************************************)
Reachable == lastOp.exc # "CommandTimeoutError"

KillAllCallReachable == KillAllCall /\ Reachable'

KillAllPollReachable == KillAllPoll /\ Reachable'

NextKillLive == KillAllCallReachable \/ KillAllPollReachable \/ ProcessExits

SpecKillLive ==
  /\ InitKill /\ [][NextKillLive]_vars
  /\ WF_vars(ProcessExits) /\ WF_vars(KillAllPollReachable)

\* C37: a KillAll(blocking=True) that waits in its loop eventually returns, with no
\* process left in the list whose name contains process_name, when every process
\* that received the signal exits and no process starts.
C37_BlockingKillAllReturns ==
  (kpc = "waiting") ~>
    (/\ kpc = "idle" /\ lastOp.exc = "none"
     /\ \A p \in DOMAIN procs : ~Contains(lastOp.name, procs[p]))

\* ---------------------------------------------------------------------------
\* The waits of WaitUntilFullyBooted(wifi), in the order of lines 378-383.
BootOrder(wifi) ==
  <<"WaitForDevice", "sd_card_ready", "pm_ready", "boot_completed">>
    \o (IF wifi THEN <<"wifi_enabled">> ELSE <<>>)

\* C38: the waits of WaitUntilFullyBooted that have ended with their condition
\* true are, at every point of the call, the first ones of: the device is there,
\* the SD card directory is there, the package manager answers, sys.boot_completed
\* is '1', and, when wifi is asked for, Wi-Fi is enabled; the call has returned
\* only with all of them; and the wait for boot_completed ends on a device whose
\* sys.boot_completed is '1'.
C38_WaitsEndInOrder ==
  lastOp.op = "WaitUntilFullyBooted" =>
    /\ Len(lastOp.seen) <= Len(BootOrder(lastOp.wifi))
    /\ lastOp.seen = SubSeq(BootOrder(lastOp.wifi), 1, Len(lastOp.seen))
    /\ lastOp.at = StDone => lastOp.seen = BootOrder(lastOp.wifi)
    /\ Len(lastOp.seen) >= 4 => devProps["sys.boot_completed"] = BootDone

\* A call with wifi=True has returned after a wait that polled more than once.
C38_Witness ==
  /\ lastOp.op = "WaitUntilFullyBooted" /\ lastOp.at = StDone /\ lastOp.exc = "none"
  /\ lastOp.wifi /\ lastOp.polls >= 1
  /\ Len(lastOp.seen) = 5

\* ---------------------------------------------------------------------------
\* C39: a ReadFile whose listing holds a line for the file without a size field
\* does not end with the TypeError of the size's conversion; it takes the size as
\* unknown and reads with cat, so that it returns the content unless cat fails.
C39_NoSizeFieldReadsWithCat ==
  (lastOp.op = "ReadFile" /\ lastOp.ls = "nosize") =>
    /\ lastOp.exc # "TypeError"
    /\ lastOp.route = "cat" /\ ~lastOp.size.known

(***************************************************************************)
(* _PushChangedFilesZipped(files), statement by statement, with zip_proc,  *)
(* the process that writes the archive.  lastOp.pc: the statement the call *)
(* is at, "done" after its return and "raised" after an exception left    *)
(* it; lastOp.worker: zip_proc is not started ("none"), runs, has ended, or *)
(* was terminated; lastOp.sentWhile: the state of zip_proc when adb.Push   *)
(* sent the archive, "none" before; lastOp.body: what the try statement's  *)
(* body ended with.                                                        *)
(***************************************************************************)
ZipOp(pc, worker, sentWhile, body, exc) ==
  [op |-> "_PushChangedFilesZipped", pc |-> pc, worker |-> worker,
   sentWhile |-> sentWhile, body |-> body, exc |-> exc]

ZipAt(pc) == lastOp.op = "_PushChangedFilesZipped" /\ lastOp.pc = pc

\* zip_proc.join(): returns when the process has ended.
JoinedWithoutWaiting(worker) == TRUE

Joined(worker) == worker = "finished"

\* 'if not files: return', else zip_proc.start()
ZipStart ==
  /\ ZipAt("start")
  /\ \E files \in {<<>>, <<Unit(HostFile, DevDir \o <<Names[1]>>)>>} :
       lastOp' = IF NothingToPush(files)
                   THEN ZipOp("done", "none", "none", "none", "none")
                   ELSE ZipOp("join", "running", "none", "none", "none")
  /\ UNCHANGED <<sessions, cacheVars, notCacheVars>>

\* _CreateDeviceZip comes to its end in zip_proc.
ZipWorkerEnds ==
  /\ lastOp.op = "_PushChangedFilesZipped" /\ lastOp.worker = "running"
  /\ lastOp' = [lastOp EXCEPT !.worker = "finished"]
  /\ UNCHANGED <<sessions, cacheVars, notCacheVars>>

ZipJoin ==
  /\ ZipAt("join") /\ Joined(lastOp.worker)
  /\ lastOp' = [lastOp EXCEPT !.pc = "path"]
  /\ UNCHANGED <<sessions, cacheVars, notCacheVars>>

\* zip_on_device = '%s/tmp.zip' % self.GetExternalStoragePath(), before the try
ZipPath ==
  /\ ZipAt("path")
  /\ \E fault \in Faults :
       LET g == GetExternalStoragePathImpl(cache, devExt, fault) IN
       /\ cache' = g.cache
       /\ lastOp' = IF g.exc # "none"
                      THEN [lastOp EXCEPT !.pc = "raised", !.exc = g.exc]
                      ELSE [lastOp EXCEPT !.pc = "push"]
  /\ UNCHANGED <<sessions, devProps, devSu, devExt, stale, retd, notCacheVars>>

\* self.adb.Push(zip_file.name, zip_on_device)
ZipPush ==
  /\ ZipAt("push")
  /\ \E fault \in Faults :
       lastOp' = IF fault # "none"
                   THEN [lastOp EXCEPT !.pc = "finally", !.body = fault]
                   ELSE [lastOp EXCEPT !.pc = "unzip", !.sentWhile = lastOp.worker]
  /\ UNCHANGED <<sessions, cacheVars, notCacheVars>>

\* self.RunShellCommand(['unzip', zip_on_device], as_root=True, ...)
ZipUnzip ==
  /\ ZipAt("unzip")
  /\ \E suFault \in Faults, fault \in Faults \cup {"AdbCommandFailedError"} :
       LET su == NeedsSUImpl(cache, devSu, suFault) IN
       /\ ~su.q => suFault = "none"
       /\ su.exc # "none" => fault = "none"
       /\ cache' = su.cache
       /\ lastOp' = [lastOp EXCEPT !.pc = "finally",
                                   !.body = IF su.exc # "none" THEN su.exc ELSE fault]
  /\ UNCHANGED <<sessions, devProps, devSu, devExt, stale, retd, notCacheVars>>

\* finally: 'if zip_proc.is_alive(): zip_proc.terminate()', then the rm of the
\* archive when IsOnline().
ZipFinally ==
  /\ ZipAt("finally")
  /\ \E isOnline \in IsOnlineOutcomes, rmFault \in Faults :
       LET z == ZippedOutcome(lastOp.body, isOnline, rmFault) IN
       /\ ~RemovesArchive(isOnline) => rmFault = "none"
       /\ lastOp' = [lastOp EXCEPT
                       !.worker = IF @ = "running" THEN "terminated" ELSE @,
                       !.pc = IF z.exc = "none" THEN "done" ELSE "raised",
                       !.exc = z.exc]
  /\ UNCHANGED <<sessions, cacheVars, notCacheVars>>

InitZip ==
  /\ sessions = NoSessions
  /\ KillUnused /\ FileUnused /\ PushUnused
  /\ cache \in {EmptyCache, Put(EmptyCache, ExtKey, Text("/sdcard", 7)),
                Put(EmptyCache, NeedsSuKey, FALSE)}
  /\ devProps = [n \in PropNames \cup {SdkProp} |->
                   IF n = SdkProp THEN SdkValue
                   ELSE IF n = "ro.build.type" THEN UserBuild ELSE BootDone]
  /\ devSu \in BOOLEAN
  /\ devExt \in ExtValues
  /\ stale = {}
  /\ retd = {}
  /\ lastOp = ZipOp("start", "none", "none", "none", "none")

NextZip ==
  \/ ZipStart
  \/ ZipWorkerEnds
  \/ ZipJoin
  \/ ZipPath
  \/ ZipPush
  \/ ZipUnzip
  \/ ZipFinally

SpecZip == InitZip /\ [][NextZip]_vars

====
